---- MODULE Spec2Model ----
(***************************************************************************)
(* Lamb-wave dispersion solver of dispersioncalc_alpha                     *)
(* (src/src/waves/Lamb.py, src/utility_functions/Utilities.py).            *)
(*                                                                         *)
(* A behaviour is one construction Lamb(thickness, nmodes_sym, ...):       *)
(* the symmetric sweep, its post-processing, the antisymmetric sweep, its  *)
(* post-processing, the two interpolate() calls, and then evaluations of   *)
(* the returned interpolants.                                              *)
(*                                                                         *)
(* Numbers.  Phase velocities are integers; the probes, the bulk speeds and *)
(* the midpoints of the first halvings of a bisection are multiples of     *)
(* VP_UNIT.  The tolerance of scipy.optimize.bisect (xtol = 2e-12,         *)
(* rtol = 8.9e-16) is far below that: the halvings of bisect are followed  *)
(* down to a cell of half-width VP_UNIT, and the midpoint x reached there  *)
(* stands for the float the code returns after its further halvings, which *)
(* lies in (x - VP_UNIT, x + VP_UNIT).  What the code computes from that   *)
(* float and the model cannot compute from the midpoint is drawn from the  *)
(* values the float can give: the residual there, np.isclose to a bulk     *)
(* speed inside the same cell, and, when the matrix is post-processed, the *)
(* order of the floats of one cell found in different fd slices, which     *)
(* are placed in the cell in every order.                                  *)
(* Residuals are integers in units of half the acceptance threshold        *)
(* (RESIDUAL_TOL = 2 units stands for 1e-2), with NaN and +/-Inf as        *)
(* reserved values.  The Rayleigh-Lamb residual is a floating-point        *)
(* transcendental function; its value at a point (vp, fd) with vp > 0,     *)
(* fd > 0, d # 0 is drawn from RVals the first time the sweep reads it and *)
(* is kept while it can be read again (the function is pure and memoised). *)
(* Indices of matrices are 0-based as in the source.                       *)
(***************************************************************************)
EXTENDS Integers, Sequences, FiniteSets, TLC

VARIABLES
    args,       \* the arguments of the constructor that runs (Lamb.__init__, SH.__init__)
    self,       \* the attributes set by Lamb.__init__ lines 97-109
    pc,         \* position in the program that runs (Lamb.__init__ / _solve_disp_eqn, ...)
    family,     \* "S" or "A": the _solve_disp_eqn call that is running
    result,     \* local `result` of _solve_disp_eqn (the raw matrix)
    accepted,   \* history: per cell, the two tests of line 256 when it was stored, and the
                \* half-width of the cell of the float stored (0 for a probe or a midpoint)
    i,          \* index of the fd slice
    j,          \* branch counter of the slice
    vp_1,       \* left probe
    vp_2,       \* right probe
    fx,         \* memo of the residual at the points of the slice that can be read again
    bis,        \* frame of scipy.optimize.bisect while it runs
    raw,        \* per family, the matrix the sweep produced (history)
    corrected,  \* per family, the matrix returned by correct_instability with zeros replaced by NaN
    dicts,      \* self.sym / self.antisym: label -> (fd samples, vp samples)
    interp_vp,  \* self.vp_sym / self.vp_antisym
    interp_vg,  \* self.vg_sym / self.vg_antisym
    interp_k,   \* self.k_sym / self.k_antisym
    raised,     \* the exception that ended the construction, or "none"
    evalOut,    \* outcome of the last evaluation of a returned interpolant
    cancel,     \* the cancellation signal of the caller and the slice at which it was raised
    slices,     \* the fd slices of a sweep computed in any order: locals, matrix, residuals read
    cache,      \* functools.cache of Lamb._calc_constants: (vp, fd) -> (k, p, q)
    ret,        \* the last call of _calc_constants and what it returned
    sh,         \* the attributes of the SH object (SH.__init__)
    sh_mode,    \* loop variable `mode` of SH.plot_phase_velocity
    lines,      \* the lines plotted by SH.plot_phase_velocity: label -> vp over the omega grid
    disk,       \* the material data files: path -> lines as readlines() returns them
    filename,   \* the class attribute _filename of the two IsotropicMaterial classes
    hist,       \* history: the names of each file before the first new-material call, and the calls
    mat,        \* the IsotropicMaterial under construction
    im,         \* two ImaginaryNumber objects and the last string returned
    ui          \* UI.app_main_loop: position, events handled, popup shown, window closed

\* the variables of the other programs of the repository and of the caller
cacheVars == <<cache, ret>>
shVars == <<sh, sh_mode, lines>>
matVars == <<disk, filename, hist, mat>>
others == <<cancel, slices, cacheVars, shVars, matVars, im, ui>>

\* the variables of a Lamb construction other than the object's attributes
sweepState == <<family, result, accepted, i, j, vp_1, vp_2, fx, bis,
                raw, corrected, dicts, interp_vp, interp_vg, interp_k, raised, evalOut>>
sweepVars == <<args, pc, sweepState>>

vars == <<args, self, pc, family, result, accepted, i, j, vp_1, vp_2, fx, bis,
          raw, corrected, dicts, interp_vp, interp_vg, interp_k, raised, evalOut, others>>

----------------------------------------------------------------------------
(* Bounds of the model *)

MaxModes == 3       \* largest number of modes requested of one family
MaxWork == 6        \* largest number of (fd slice, probe interval) pairs in which
                    \* a root can be found, counted in bisection steps

(* Program constants, in model units *)

NaN == -2000000             \* np.nan
PosInf == 1000000           \* np.inf
NegInf == -PosInf
RESIDUAL_TOL == 2           \* 1e-2, in residual units of 5e-3
VP_UNIT == 8                \* half the width of the cell a followed bisection ends in
ISCLOSE_RTOL_INV == 100000  \* 1 / rtol of np.isclose (rtol = 1e-5)
FD_STEP_SCALE == 1000       \* self.fd_step = fd_step * 1e3
MIN_SAMPLES == 3            \* interpolate: arr[1].size > 3
VP_STEP == 16               \* the smaller vp_step explored: the width of a cell

----------------------------------------------------------------------------
(* Floating-point values *)

IsNaN(x) == x = NaN

\* np.sign: -1, 0, 1, and NaN for NaN
Sign(x) == IF IsNaN(x) THEN NaN ELSE IF x > 0 THEN 1 ELSE IF x < 0 THEN -1 ELSE 0

Abs(x) == IF x < 0 THEN -x ELSE x

\* np.abs(x) < tol: false for NaN
AbsLt(x, tol) == ~IsNaN(x) /\ Abs(x) < tol

\* fm*fa >= 0 of bisect.c: false when the product is NaN (a NaN factor, or 0*inf)
ProdGE0(fm, fa) ==
    /\ ~IsNaN(fm) /\ ~IsNaN(fa)
    /\ ~(fm = 0 /\ Abs(fa) = PosInf) /\ ~(fa = 0 /\ Abs(fm) = PosInf)
    /\ ((fm >= 0 /\ fa >= 0) \/ (fm <= 0 /\ fa <= 0))

\* np.isclose(a, b): |a - b| <= atol + rtol*|b|, rtol = 1e-5; atol = 1e-8 is
\* far below VP_UNIT
IsClose(a, b) == ~IsNaN(a) /\ ~IsNaN(b) /\ Abs(a - b) * ISCLOSE_RTOL_INV <= Abs(b)

\* the values np.isclose(x, b) takes for the floats x with |x - a| < width:
\* TRUE when one of them is within rtol*|b| of b, FALSE when one of them is not
CloseValues(a, width, b) ==
    { close \in BOOLEAN :
        IF close THEN (Abs(a - b) - width) * ISCLOSE_RTOL_INV < Abs(b)
        ELSE (Abs(a - b) + width) * ISCLOSE_RTOL_INV > Abs(b) }

\* the values a residual can take: NaN, -inf, at or beyond the threshold, below
\* the threshold, zero
RVals == {NaN, NegInf, -RESIDUAL_TOL, -1, 0, 1, RESIDUAL_TOL, PosInf}

----------------------------------------------------------------------------
(* Arrays: a matrix is a function from 0-based row indices to rows, a row a *)
(* function from 0-based column indices to numbers                          *)

NRows(m) == Cardinality(DOMAIN m)

\* np.zeros((rows, cols)); for cols <= 0 the rows are empty
Zeros(rows, cols) == [r \in 0..(rows - 1) |-> [c \in 0..(cols - 1) |-> 0]]

\* m[r][c] = v
SetCell(m, r, c, v) == [m EXCEPT ![r] = [@ EXCEPT ![c] = v]]

\* np.linspace(0, stop, num)[idx], rounded down to the fd unit
LinSpace(stop, num, idx) == IF num = 1 THEN 0 ELSE (idx * stop) \div (num - 1)

\* str(n) for the mode orders of the model
Str(n) == CASE n = 0 -> "0" [] n = 1 -> "1" [] n = 2 -> "2" [] n = 3 -> "3"
            [] n = 4 -> "4" [] n = 5 -> "5" [] n = 6 -> "6" [] n = 7 -> "7"
            [] n = 8 -> "8" [] n = 9 -> "9"

----------------------------------------------------------------------------
(* correct_instability (Utilities.py 89-159), "Pass A"                      *)

\* n = 1 for both families
FirstProcessed_One(fam) == 1

\* n = 1 if function.__name__ == '_symmetric' else 2
FirstProcessed(fam) == IF fam = "S" THEN 1 ELSE 2

\* while col[i] == 0 and i < len(col)-1: i += 1      (col is column c of corr)
RECURSIVE SkipZeros(_, _, _)
SkipZeros(corr, c, k) ==
    IF corr[k][c] = 0 /\ k < NRows(corr) - 1 THEN SkipZeros(corr, c, k + 1) ELSE k

\* body of the first loop for one column: the cell of the next column in the
\* row of this column's first non-zero cell is zeroed
HeadStep(corr, n, nmodes, idx) ==
    IF \E r \in DOMAIN corr : corr[r][idx + n] # 0
    THEN LET k == SkipZeros(corr, idx + n, 0)
         IN IF idx < nmodes - n THEN SetCell(corr, k, idx + n + 1, 0) ELSE corr
    ELSE corr

\* first loop: for idx, col in enumerate(corr.T[n:, :])
RECURSIVE HeadLoop(_, _, _, _)
HeadLoop(corr, n, nmodes, idx) ==
    IF idx + n > nmodes THEN corr
    ELSE HeadLoop(HeadStep(corr, n, nmodes, idx), n, nmodes, idx + 1)

\* the shift without `corr[j][idx+n] = 0`: the source cell keeps its value
ShiftRow_KeepSource(corr, res, n, nmodes, idx, k) ==
    [corr EXCEPT ![k] =
        [c \in DOMAIN corr[k] |->
            IF c >= idx + n + 1 /\ c <= nmodes THEN res[k][c - 1] ELSE corr[k][c]]]

\* the shift with result[j][idx+p-2] for result[j][idx+p-1]
ShiftRow_TwoBack(corr, res, n, nmodes, idx, k) ==
    IF idx \in 0..(nmodes - 1)
    THEN [corr EXCEPT ![k] =
            [c \in DOMAIN corr[k] |->
                IF c = idx + n THEN 0
                ELSE IF c >= idx + n + 1 /\ c <= nmodes THEN res[k][c - 2]
                ELSE corr[k][c]]]
    ELSE corr

\* for idx2 in range(nmodes): if idx == idx2: corr[j][idx+n] = 0 and
\* corr[j][idx+p] = result[j][idx+p-1] for p = n+1 .. nmodes-idx2
ShiftRow(corr, res, n, nmodes, idx, k) ==
    IF idx \in 0..(nmodes - 1)
    THEN [corr EXCEPT ![k] =
            [c \in DOMAIN corr[k] |->
                IF c = idx + n THEN 0
                ELSE IF c >= idx + n + 1 /\ c <= nmodes THEN res[k][c - 1]
                ELSE corr[k][c]]]
    ELSE corr

\* while (col[i] < col[j] or col[j] == 0) and j < len(col)-1
RECURSIVE ShiftWhile(_, _, _, _, _, _, _)
ShiftWhile(corr, res, n, nmodes, idx, r, k) ==
    IF (corr[r][idx + n] < corr[k][idx + n] \/ corr[k][idx + n] = 0) /\ k < NRows(corr) - 1
    THEN IF corr[k][idx + n] = 0
         THEN ShiftWhile(corr, res, n, nmodes, idx, r, k + 1)
         ELSE ShiftWhile(ShiftRow(corr, res, n, nmodes, idx, k), res, n, nmodes, idx, r, k + 1)
    ELSE corr

\* the body without `if i == len(col)-2: corr[i+1][idx+n] = 0`
RowStep_KeepLast(corr, res, n, nmodes, idx, r) ==
    LET len == NRows(corr)
        corr1 == corr
    IN  IF corr1[r][idx + n] # 0
        THEN LET k == IF corr1[r + 1][idx + n] = 0
                      THEN SkipZeros(corr1, idx + n, r + 1) ELSE r + 1
             IN IF k < len - 1
                THEN IF corr1[r][idx + n] < corr1[k][idx + n] \/ corr1[k][idx + n] = 0
                     THEN ShiftWhile(corr1, res, n, nmodes, idx, r, k)
                     ELSE corr1
                ELSE corr1
        ELSE corr1

\* body of `for i in range(len(col)-1)` for row r of column idx+n
RowStep(corr, res, n, nmodes, idx, r) ==
    LET len == NRows(corr)
        corr1 == IF r = len - 2 THEN SetCell(corr, r + 1, idx + n, 0) ELSE corr
    IN  IF corr1[r][idx + n] # 0
        THEN LET k == IF corr1[r + 1][idx + n] = 0
                      THEN SkipZeros(corr1, idx + n, r + 1) ELSE r + 1
             IN IF k < len - 1
                THEN IF corr1[r][idx + n] < corr1[k][idx + n] \/ corr1[k][idx + n] = 0
                     THEN ShiftWhile(corr1, res, n, nmodes, idx, r, k)
                     ELSE corr1
                ELSE corr1
        ELSE corr1

\* for i in range(len(col)-1)
RECURSIVE RowLoop(_, _, _, _, _, _)
RowLoop(corr, res, n, nmodes, idx, r) ==
    IF r >= NRows(corr) - 1 THEN corr
    ELSE RowLoop(RowStep(corr, res, n, nmodes, idx, r), res, n, nmodes, idx, r + 1)

\* second loop: for idx, col in enumerate(corr.T[n:, :])
RECURSIVE ColLoop(_, _, _, _, _)
ColLoop(corr, res, n, nmodes, idx) ==
    IF idx + n > nmodes THEN corr
    ELSE ColLoop(RowLoop(corr, res, n, nmodes, idx, 0), res, n, nmodes, idx + 1)

\* nmodes = result.shape[1] - 1
NModesOf(res, width) == width - 1

\* correct_instability(result, function); width is result.shape[1]
correct_instability(res, fam, width) ==
    LET n == FirstProcessed(fam)
        nmodes == NModesOf(res, width)
    IN ColLoop(HeadLoop(res, n, nmodes, 0), res, n, nmodes, 0)

----------------------------------------------------------------------------
(* _solve_disp_eqn lines 264-289: sentinels and branch extraction, "Pass B" *)

\* the replacement on the mode columns only: column 0 keeps its zero
Sentinel_ModeColumns(m) ==
    [r \in DOMAIN m |->
        [c \in DOMAIN m[r] |-> IF m[r][c] = 0 /\ c # 0 THEN NaN ELSE m[r][c]]]

\* result[result == 0] = np.nan
Sentinel(m) == [r \in DOMAIN m |-> [c \in DOMAIN m[r] |-> IF m[r][c] = 0 THEN NaN ELSE m[r][c]]]

\* the filter with the kept rows in reverse order
RECURSIVE ModeResult_Reversed(_, _, _)
ModeResult_Reversed(m, col, r) ==
    IF r >= NRows(m) THEN [fd |-> <<>>, vp |-> <<>>]
    ELSE LET rest == ModeResult_Reversed(m, col, r + 1)
         IN IF IsNaN(m[r][0]) \/ IsNaN(m[r][col]) THEN rest
            ELSE [fd |-> rest.fd \o <<m[r][0]>>, vp |-> rest.vp \o <<m[r][col]>>]

\* np.vstack((result[:, 0], result[:, col])) without the columns (rows of
\* result) that hold a NaN: the pair (fd samples, vp samples), rows from r on
RECURSIVE ModeResult(_, _, _)
ModeResult(m, col, r) ==
    IF r >= NRows(m) THEN [fd |-> <<>>, vp |-> <<>>]
    ELSE LET rest == ModeResult(m, col, r + 1)
         IN IF IsNaN(m[r][0]) \/ IsNaN(m[r][col]) THEN rest
            ELSE [fd |-> <<m[r][0]>> \o rest.fd, vp |-> <<m[r][col]>> \o rest.vp]

\* result[:, nmode] for result[:, nmode + 1]
ColumnOf_Unshifted(nmode) == nmode

\* the column of the matrix that result_dict[label + str(nmode)] is taken from
ColumnOf(nmode) == nmode + 1

\* result_dict: for nmode in range(nmodes): result_dict[label + str(nmode)] = mode_result
ResultDict(m, label, nmodes) ==
    [key \in {label \o Str(nmode) : nmode \in 0..(nmodes - 1)} |->
        ModeResult(m, ColumnOf(CHOOSE nmode \in 0..(nmodes - 1) : key = label \o Str(nmode)), 0)]

----------------------------------------------------------------------------
(* interpolate (Utilities.py 35-86)                                         *)

\* scipy.interpolate.interp1d(x, y, kind=kind): bounds_error and fill_value
\* are left at their defaults, so bounds_error is True unless fill_value is
\* "extrapolate"
interp1d(x, y, kind, fill_value) ==
    [x |-> x, y |-> y, kind |-> kind,
     bounds_error |-> (fill_value # "extrapolate"), fill_value |-> fill_value]

\* interp1d.__call__(x_new): ValueError outside [x[0], x[-1]] when
\* bounds_error, else the fill value there; a spline value inside
Interp1dCall(f, x_new) ==
    IF x_new < f.x[1] \/ x_new > f.x[Len(f.x)]
    THEN IF f.bounds_error THEN "ValueError"
         ELSE IF f.fill_value = "extrapolate" THEN "extrapolated" ELSE "fill"
    ELSE "value"

\* the size test with >= for >
Retained_AtLeast3(arr) == Len(arr.vp) >= MIN_SAMPLES

\* if arr[1].size > 3
Retained(arr) == Len(arr.vp) > MIN_SAMPLES

\* interp1d called with fill_value="extrapolate"
MakeInterp_Extrapolate(arr, which, kind) ==
    IF which = "vp" THEN interp1d(arr.fd, arr.vp, kind, "extrapolate")
    ELSE interp1d(arr.fd, [n \in 1..Len(arr.fd) |-> <<which, arr.fd[n], arr.vp[n]>>],
                  kind, "extrapolate")

\* the interpolant built for a retained mode: which is "vp", "k" or "vg".
\* The knots of k and vg are kept as terms over (fd, vp): k = (fd*2*pi/d)/vp,
\* vg = vp^2 / (vp - vp'(fd)*fd) with vp' the derivative of the spline
MakeInterp(arr, which, kind) ==
    IF which = "vp" THEN interp1d(arr.fd, arr.vp, kind, "nan")
    ELSE interp1d(arr.fd, [n \in 1..Len(arr.fd) |-> <<which, arr.fd[n], arr.vp[n]>>], kind, "nan")

\* one of the three dictionaries interpolate returns
InterpDict(res, which) ==
    [mode \in {m \in DOMAIN res : Retained(res[m])} |-> MakeInterp(res[mode], which, "cubic")]

----------------------------------------------------------------------------
(* The constructions explored *)

\* <<nmodes_sym, nmodes_antisym>>: one family alone, or one mode of each
ModePairs == { <<MaxModes - 1, 0>>, <<0, MaxModes>>, <<1, 1>> }

\* the families of which modes are requested
NFamilies(mp) == (IF mp[1] > 0 THEN 1 ELSE 0) + (IF mp[2] > 0 THEN 1 ELSE 0)

\* the halvings of bisect that are followed over a bracket of the given width
RECURSIVE Halvings(_)
Halvings(width) == IF width \div 2 <= VP_UNIT THEN 1 ELSE 1 + Halvings(width \div 2)

\* fd_points - 1 slices have fd > 0; of the probe intervals of a slice the
\* first starts at vp = 0, where the residual is NaN
Work(mp, points, intervals, step) ==
    NFamilies(mp) * (IF points > 1 THEN points - 1 ELSE 0) * intervals * Halvings(step)

\* thickness in mm, fd_max and fd_step in kHz mm, speeds as phase velocities; the
\* shear and longitudinal speeds lie inside the first two probe intervals
\* that can hold a root
MkArgs(mp, points, intervals, step, thickness, c_l, c_s) ==
    [thickness |-> thickness, nmodes_sym |-> mp[1], nmodes_antisym |-> mp[2],
     fd_max |-> FD_STEP_SCALE * points, fd_step |-> 1,
     vp_max |-> step * (intervals + 2), c_l |-> c_l, c_s |-> c_s,
     fd_points |-> 100, vp_step |-> step]

\* plates with 0 < c_s < c_l and thickness > 0, of every size
PlateArgs ==
    { MkArgs(mp, points, intervals, step, 1, 2 * step + VP_UNIT, step + VP_UNIT) :
        mp \in ModePairs, points \in 0..MaxWork, intervals \in 0..MaxWork,
        step \in {VP_STEP, 2 * VP_STEP} }

\* a plate of no thickness, a plate with c_l = c_s, a sweep with vp_max = vp_step
DegenerateArgs ==
    { MkArgs(<<1, 1>>, 2, 1, VP_STEP, 0, 2 * VP_STEP + VP_UNIT, VP_STEP + VP_UNIT),
      MkArgs(<<1, 1>>, 2, 1, VP_STEP, 1, VP_STEP + VP_UNIT, VP_STEP + VP_UNIT),
      MkArgs(<<1, 1>>, 2, -1, VP_STEP, 1, 2 * VP_STEP + VP_UNIT, VP_STEP + VP_UNIT) }

\* the work of a construction, from its arguments
WorkOf(a) ==
    Work(<<a.nmodes_sym, a.nmodes_antisym>>, a.fd_max \div FD_STEP_SCALE,
         (a.vp_max \div a.vp_step) - 2, a.vp_step)

\* the work allowed to a construction: a sweep for MaxModes modes is explored
\* one step less deep than the others
Budget(a) == IF a.nmodes_antisym = MaxModes THEN MaxWork - 1 ELSE MaxWork

ArgSet == {a \in PlateArgs : WorkOf(a) <= Budget(a)} \cup DegenerateArgs

\* the paths of the material data files: the default of materials/Materials.py
\* (line 39) and the default of material_editor/materials.py (line 9); a file
\* dialog or a caller can give either to fix_file_path
MaterialsPath == "material_data.txt"
EditorPath == "material_editor/material_data.txt"
Paths == {MaterialsPath, EditorPath}

\* the two classes named IsotropicMaterial
MaterialsClass == "materials.Materials"
EditorClass == "material_editor.materials"
Classes == {MaterialsClass, EditorClass}

\* the class attribute _filename of each class before any fix_file_path
DefaultFilenames ==
    [cls \in Classes |-> IF cls = MaterialsClass THEN MaterialsPath ELSE EditorPath]

\* a path at which there is no file, and a file of the given lines
NoFile == [exists |-> FALSE, lines |-> <<>>, eof_newline |-> FALSE]
File(file, ends_with_newline) ==
    [exists |-> TRUE, lines |-> file, eof_newline |-> ends_with_newline]

\* no cancellation signal, no cached triple, no call made
NotCancelled == [raised |-> FALSE, slice |-> 0]
NoRet == [vp |-> 0, fd |-> 0, value |-> <<>>, obj |-> <<>>]

\* no slice is computed out of the loop of the sweep
NoSlices ==
    [frame |-> <<>>, result |-> <<>>, function |-> <<>>, reordered |-> FALSE, interleaved |-> FALSE]
NoMat == [material |-> <<>>, status |-> "", name |-> <<>>,
          density |-> <<0, 0>>, E |-> <<0, 0>>, v |-> <<0, 0>>]
NoIm == [a |-> <<>>, b |-> <<>>, op |-> "", out |-> ""]
NoHist == [before |-> <<>>, calls |-> <<>>]
NoUi == [pc |-> "", events |-> <<>>, popup |-> FALSE, closed |-> FALSE]

\* the state of the other programs while none of them runs
OthersIdle ==
    /\ cancel = NotCancelled
    /\ slices = NoSlices
    /\ cache = <<>> /\ ret = NoRet
    /\ sh = <<>> /\ sh_mode = 0 /\ lines = <<>>
    /\ disk = [p \in Paths |-> NoFile] /\ filename = DefaultFilenames
    /\ hist = NoHist /\ mat = NoMat
    /\ im = NoIm
    /\ ui = NoUi

NoFrame == [xa |-> 0, dm |-> 0, fa |-> 0]
NoMemo == <<>>
NoEval == [fam |-> "", which |-> "", mode |-> "", fd |-> 0, status |-> ""]
Families == {"S", "A"}

\* no sweep has run
SweepIdle ==
    /\ family = "S"
    /\ result = <<>>
    /\ accepted = <<>>
    /\ i = 0 /\ j = 0 /\ vp_1 = 0 /\ vp_2 = 0
    /\ fx = NoMemo
    /\ bis = NoFrame
    /\ raw = [f \in Families |-> <<>>]
    /\ corrected = [f \in Families |-> <<>>]
    /\ dicts = [f \in Families |-> <<>>]
    /\ interp_vp = [f \in Families |-> <<>>]
    /\ interp_vg = [f \in Families |-> <<>>]
    /\ interp_k = [f \in Families |-> <<>>]
    /\ raised = "none"
    /\ evalOut = NoEval

Init ==
    /\ args \in ArgSet
    /\ self = <<>>
    /\ pc = "construct"
    /\ SweepIdle
    /\ OthersIdle

----------------------------------------------------------------------------
(* Lamb.__init__ lines 97-109 *)

\* the attributes __init__ sets from its arguments
SelfOf(a) ==
    [d |-> a.thickness,          \* thickness / 1e3, kept in mm
     nmodes_sym |-> a.nmodes_sym,
     nmodes_antisym |-> a.nmodes_antisym,
     fd_max |-> a.fd_max,
     fd_step |-> a.fd_step * FD_STEP_SCALE,
     vp_max |-> a.vp_max,
     c_L |-> a.c_l,
     c_S |-> a.c_s,
     fd_points |-> a.fd_max \div (a.fd_step * FD_STEP_SCALE),
     vp_step |-> a.vp_step]

Construct ==
    /\ pc = "construct"
    /\ self' = SelfOf(args)
    /\ pc' = "solve"
    /\ family' = "S"
    /\ UNCHANGED others
    /\ UNCHANGED <<args, result, accepted, i, j, vp_1, vp_2, fx, bis, raw, corrected, dicts,
                   interp_vp, interp_vg, interp_k, raised, evalOut>>

----------------------------------------------------------------------------
(* Lamb._calc_constants (lines 136-161) under functools.cache               *)

RECURSIVE GCD(_, _)
GCD(a, b) == IF b = 0 THEN a ELSE GCD(b, a % b)

\* the fraction n/m (m > 0) in lowest terms
Frac(n, m) == LET g == GCD(Abs(n), m) IN <<n \div g, m \div g>>

\* the body of _calc_constants for plate parameters d, c_L, c_S of obj:
\* omega = 2*pi*(fd/d), k = omega/vp, p = sqrt((omega/c_L)^2 - k^2),
\* q = sqrt((omega/c_S)^2 - k^2).  The triple is kept exactly: k as a
\* fraction in units of 2*pi, p and q by the fractions p^2/k^2 = vp^2/c_L^2 - 1
\* and q^2/k^2 = vp^2/c_S^2 - 1 (for a finite k # 0 the principal square root
\* makes this one-to-one).  fd = 0 gives omega = 0 and k = p = q = 0; a zero
\* d or vp gives the IEEE values: 0/0 = nan, x/0 = inf, inf - inf = nan,
\* sqrt(-inf) = inf j
calc_constants(obj, vp, fd) ==
    IF obj.d = 0
    THEN IF fd = 0 THEN <<<<NaN, 1>>, <<NaN, 1>>, <<NaN, 1>>>>
         ELSE <<<<PosInf, 1>>, <<NaN, 1>>, <<NaN, 1>>>>
    ELSE IF vp = 0
    THEN IF fd = 0 THEN <<<<NaN, 1>>, <<NaN, 1>>, <<NaN, 1>>>>
         ELSE <<<<PosInf, 1>>, <<NegInf, 1>>, <<NegInf, 1>>>>
    ELSE IF fd = 0 THEN <<<<0, 1>>, <<0, 1>>, <<0, 1>>>>
    ELSE <<Frac(fd, obj.d * vp),
           Frac(vp * vp - obj.c_L * obj.c_L, obj.c_L * obj.c_L),
           Frac(vp * vp - obj.c_S * obj.c_S, obj.c_S * obj.c_S)>>

\* the key functools.cache makes of the arguments (self, vp, fd): self is
\* hashed by identity (eq=False), so for one object the key is (vp, fd)
CacheKey(vp, fd) == <<vp, fd>>

\* the cache after calls of obj._calc_constants at the points pts: a point
\* already cached keeps its triple, a new one gets the triple computed now
Cached(c, obj, pts) ==
    [key \in DOMAIN c \cup {CacheKey(pt[1], pt[2]) : pt \in pts} |->
        IF key \in DOMAIN c THEN c[key] ELSE calc_constants(obj, key[1], key[2])]

----------------------------------------------------------------------------
(* Lamb._solve_disp_eqn (lines 207-289) *)

\* the arguments of the call for a family: nmodes, c, label
NModes(fam) == IF fam = "S" THEN args.nmodes_sym ELSE args.nmodes_antisym
Forbidden(fam) == IF fam = "S" THEN args.c_s ELSE args.c_l

\* fd_arr[idx]
FdArr(idx) == LinSpace(self.fd_max, self.fd_points, idx)

\* the values function(vp, fd) can return: omega = 2*pi*fd/d and k = omega/vp
\* make every term NaN when d = 0, fd = 0 or vp = 0; the function is pure, so
\* at a point it was evaluated at before this sweep it returns what it returned
Residuals(vp, fd) ==
    IF vp = 0 \/ fd = 0 \/ self.d = 0 THEN {NaN}
    ELSE IF <<vp, fd>> \in DOMAIN slices.function THEN {slices.function[<<vp, fd>>]}
    ELSE RVals

\* the two tests of line 256 for a cell nothing was stored in
NotStored == [residual_ok |-> FALSE, isclose |-> FALSE, width |-> 0]

\* lines 219-220
BeginSolve ==
    /\ pc = "solve"
    /\ result' = Zeros(self.fd_points, NModes(family) + 1)
    /\ accepted' = [r \in 0..(self.fd_points - 1) |-> [c \in 0..NModes(family) |-> NotStored]]
    /\ i' = 0
    /\ pc' = "slice"
    /\ UNCHANGED others
    /\ UNCHANGED <<args, self, family, j, vp_1, vp_2, fx, bis, raw, corrected, dicts,
                   interp_vp, interp_vg, interp_k, raised, evalOut>>

\* the for loop with `j = 1` before it: the counter is kept from slice to slice
BeginSlice_CounterOutsideLoop ==
    /\ pc = "slice"
    /\ IF i < self.fd_points
       THEN /\ result' = SetCell(result, i, 0, FdArr(i))
            /\ j' = IF i = 0 THEN 1 ELSE j
            /\ vp_1' = 0
            /\ vp_2' = self.vp_step
            /\ fx' = NoMemo
            /\ pc' = "probe"
       ELSE /\ pc' = "post"
            /\ UNCHANGED <<result, j, vp_1, vp_2, fx>>
    /\ UNCHANGED others
    /\ UNCHANGED <<args, self, family, accepted, i, bis, raw, corrected, dicts,
                   interp_vp, interp_vg, interp_k, raised, evalOut>>

\* lines 224-233: the next fd slice, or the end of the for loop
BeginSlice ==
    /\ pc = "slice"
    /\ IF i < self.fd_points
       THEN /\ result' = SetCell(result, i, 0, FdArr(i))
            /\ j' = 1
            /\ vp_1' = 0
            /\ vp_2' = self.vp_step
            /\ fx' = NoMemo
            /\ pc' = "probe"
       ELSE /\ pc' = "post"
            /\ UNCHANGED <<result, j, vp_1, vp_2, fx>>
    /\ UNCHANGED others
    /\ UNCHANGED <<args, self, family, accepted, i, bis, raw, corrected, dicts,
                   interp_vp, interp_vg, interp_k, raised, evalOut>>

\* the loop guard with <= for <
LoopGuard_LE(v2, vmax) == v2 <= vmax

\* while vp_2 < self.vp_max
LoopGuard(v2, vmax) == v2 < vmax

\* lines 239-241: the slot is free, neither residual is NaN, the signs differ
Bracket(jj, nmodes, x_1, x_2) ==
    jj < nmodes + 1 /\ ~IsNaN(x_1) /\ ~IsNaN(x_2) /\ Sign(x_1) # Sign(x_2)

\* line 256 with `or` for `and`
Accept_Or(fval, close) == AbsLt(fval, RESIDUAL_TOL) \/ ~close

\* line 256: fval is function(bisection, fd), close is np.isclose(bisection, c)
Accept(fval, close) == AbsLt(fval, RESIDUAL_TOL) /\ ~close

\* function(vp, fd) for the current slice: the memoised value, or a value drawn now
Known(vp) == IF vp \in DOMAIN fx THEN {fx[vp]} ELSE Residuals(vp, FdArr(i))

\* lines 256-262 with j += 1 outside the if of line 256
StoreAndAdvance_SlotConsumed(bisection, width, fval, close, x_2) ==
    /\ IF Accept(fval, close)
       THEN /\ result' = SetCell(result, i, j, bisection)
            /\ accepted' = SetCell(accepted, i, j,
                    [residual_ok |-> AbsLt(fval, RESIDUAL_TOL), isclose |-> close,
                     width |-> width])
       ELSE UNCHANGED <<result, accepted>>
    /\ j' = j + 1
    /\ vp_1' = vp_2
    /\ vp_2' = vp_2 + self.vp_step
    /\ fx' = IF j' < NModes(family) + 1 THEN (vp_2 :> x_2) ELSE NoMemo
    /\ bis' = NoFrame
    /\ pc' = "probe"

\* lines 256-262 with `bisection` the root returned by bisect (the float lies
\* less than `width` from it), fval the residual there, close the value of
\* np.isclose(bisection, c) and x_2 the residual at the right probe
StoreAndAdvance(bisection, width, fval, close, x_2) ==
    /\ IF Accept(fval, close)
       THEN /\ result' = SetCell(result, i, j, bisection)
            /\ accepted' = SetCell(accepted, i, j,
                    [residual_ok |-> AbsLt(fval, RESIDUAL_TOL), isclose |-> close,
                     width |-> width])
            /\ j' = j + 1
       ELSE UNCHANGED <<result, accepted, j>>
    /\ vp_1' = vp_2
    /\ vp_2' = vp_2 + self.vp_step
    /\ fx' = IF j' < NModes(family) + 1 THEN (vp_2 :> x_2) ELSE NoMemo
    /\ bis' = NoFrame
    /\ pc' = "probe"

\* lines 261-262 when no bisection was run
Advance(x_2) ==
    /\ vp_1' = vp_2
    /\ vp_2' = vp_2 + self.vp_step
    /\ fx' = IF j < NModes(family) + 1 THEN (vp_2 :> x_2) ELSE NoMemo
    /\ pc' = "probe"
    /\ UNCHANGED <<result, accepted, j, bis>>

\* one iteration of the while loop (lines 235-262) up to the call of bisect,
\* or the end of the loop.  Lines 236-237 evaluate function at both probes in
\* every pass, which caches their triples; once j > nmodes the two residuals
\* are never read and are not drawn.  bisect returns an endpoint whose
\* residual is zero at once (bisect.c: fa == 0, fb == 0).
Probe ==
    /\ pc = "probe"
    /\ IF LoopGuard(vp_2, self.vp_max)
       THEN /\ \E x_1 \in (IF j < NModes(family) + 1 THEN Known(vp_1) ELSE {NaN}),
                  x_2 \in (IF j < NModes(family) + 1 THEN Known(vp_2) ELSE {NaN}) :
                    IF Bracket(j, NModes(family), x_1, x_2)
                    THEN IF x_1 = 0
                         THEN StoreAndAdvance(vp_1, 0, x_1, IsClose(vp_1, Forbidden(family)), x_2)
                         ELSE IF x_2 = 0
                         THEN StoreAndAdvance(vp_2, 0, x_2, IsClose(vp_2, Forbidden(family)), x_2)
                         ELSE /\ bis' = [xa |-> vp_1, dm |-> vp_2 - vp_1, fa |-> x_1]
                              /\ fx' = (vp_2 :> x_2)
                              /\ pc' = "bisect"
                              /\ UNCHANGED <<result, accepted, j, vp_1, vp_2>>
                    ELSE Advance(x_2)
            /\ cache' = Cached(cache, self, {<<vp_1, FdArr(i)>>, <<vp_2, FdArr(i)>>})
            /\ UNCHANGED i
       ELSE /\ i' = i + 1
            /\ fx' = NoMemo
            /\ pc' = "slice"
            /\ UNCHANGED <<result, accepted, j, vp_1, vp_2, bis, cache>>
    /\ UNCHANGED <<cancel, slices, ret, shVars, matVars, im, ui>>
    /\ UNCHANGED <<args, self, family, raw, corrected, dicts, interp_vp, interp_vg, interp_k,
                   raised, evalOut>>

\* one iteration of the loop of bisect (scipy/optimize/Zeros/bisect.c):
\* dm *= .5; xm = xa + dm; fm = f(xm); if (fm*fa >= 0) xa = xm;
\* if (fm == 0 || fabs(dm) < xtol + rtol*fabs(xm)) return xm.
\* xtol + rtol*|xm| is far below VP_UNIT: an iteration whose dm is above
\* VP_UNIT never passes the second test, and returns xm itself when fm == 0.
\* At dm = VP_UNIT the model leaves the loop: xm stands for the float returned
\* after the further halvings, which lies in (xm - dm, xm + dm) whatever
\* f(xm) is (a NaN there keeps xa), fm for the residual at that float, and
\* np.isclose(float, c) is TRUE or FALSE when c lies in that cell (a float
\* of the cell can be c to within rtol, and most are not), FALSE when c lies
\* outside.  The value returned is stored or rejected and the probes advance.
BisectIter ==
    /\ pc = "bisect"
    /\ \E fm \in Residuals(bis.xa + (bis.dm \div 2), FdArr(i)) :
         LET dm == bis.dm \div 2
             xm == bis.xa + dm
         IN IF dm <= VP_UNIT
            THEN \E close \in CloseValues(xm, dm, Forbidden(family)) :
                    StoreAndAdvance(xm, dm, fm, close, fx[vp_2])
            ELSE IF fm = 0
            THEN StoreAndAdvance(xm, 0, fm, IsClose(xm, Forbidden(family)), fx[vp_2])
            ELSE /\ bis' = [xa |-> IF ProdGE0(fm, bis.fa) THEN xm ELSE bis.xa,
                            dm |-> dm, fa |-> bis.fa]
                 /\ UNCHANGED <<result, accepted, j, vp_1, vp_2, fx, pc>>
    /\ cache' = Cached(cache, self, {<<bis.xa + (bis.dm \div 2), FdArr(i)>>})
    /\ UNCHANGED <<cancel, slices, ret, shVars, matVars, im, ui>>
    /\ UNCHANGED <<args, self, family, i, raw, corrected, dicts, interp_vp, interp_vg, interp_k,
                   raised, evalOut>>

\* bisect wraps f so that a NaN value raises ValueError("The function value at
\* x=... is NaN; solver cannot continue.") (scipy/optimize/_zeros_py.py,
\* _wrap_nan_raise); releases without the wrapper go on as in BisectIter.
\* Nothing catches the exception: the construction ends.
BisectNaN ==
    /\ pc = "bisect"
    /\ NaN \in Residuals(bis.xa + (bis.dm \div 2), FdArr(i))
    /\ pc' = "raised"
    /\ raised' = "ValueError"
    /\ result' = <<>> /\ accepted' = <<>>
    /\ i' = 0 /\ j' = 0 /\ vp_1' = 0 /\ vp_2' = 0
    /\ fx' = NoMemo /\ bis' = NoFrame
    /\ cache' = Cached(cache, self, {<<bis.xa + (bis.dm \div 2), FdArr(i)>>})
    /\ UNCHANGED <<cancel, slices, ret, shVars, matVars, im, ui>>
    /\ UNCHANGED <<args, self, family, raw, corrected, dicts, interp_vp, interp_vg, interp_k,
                   evalOut>>

\* the cells of the matrix in which a followed bisection ended
InCell(m, acc) ==
    {p \in (DOMAIN m) \X (0..NModes(family)) :
        p[2] > 0 /\ m[p[1]][p[2]] # 0 /\ acc[p[1]][p[2]].width > 0}

CellsOf(m, acc) == {m[p[1]][p[2]] : p \in InCell(m, acc)}

Min(a, b) == IF a < b THEN a ELSE b

\* the orders the floats at the positions pos, all of one cell, can have among
\* themselves: a rank for each, the lowest 0, none skipped, so that every order
\* (ties included) is there once; a cell has room for VP_UNIT ranks, more
\* than the sweeps explored have fd slices
Ranks(pos) ==
    { o \in [pos -> 0..(Min(Cardinality(pos), VP_UNIT) - 1)] :
        \A p \in pos : \A lower \in 0..(o[p] - 1) : \E q \in pos : o[q] = lower }

\* the matrices of floats the sweep can have stored when the model holds m:
\* an entry of m that holds the midpoint x of a followed bisection stands for
\* a float of (x - VP_UNIT, x + VP_UNIT), and the floats of one cell found in
\* different slices are ordered among themselves in every way (a slice holds
\* at most one root of a cell); the code reads nothing else of them
RECURSIVE Floats(_, _, _)
Floats(m, acc, cells) ==
    IF cells = {} THEN {m}
    ELSE LET x == CHOOSE v \in cells : TRUE
             pos == {p \in InCell(m, acc) : m[p[1]][p[2]] = x}
         IN UNION { Floats([r \in DOMAIN m |->
                              [c \in DOMAIN m[r] |->
                                  IF <<r, c>> \in pos THEN x + o[<<r, c>>] ELSE m[r][c]]],
                           acc, cells \ {x}) : o \in Ranks(pos) }

\* lines 264-289: correct_instability, the NaN sentinels, result_dict, on the
\* floats that the sweep stored (correct_instability compares them, Utilities.py
\* 145-146); then __init__ goes on with the antisymmetric family (line 120) or
\* interpolate
PostProcess ==
    /\ pc = "post"
    /\ \E floats \in Floats(result, accepted, CellsOf(result, accepted)) :
          LET corr == Sentinel(correct_instability(floats, family, NModes(family) + 1))
          IN /\ corrected' = [corrected EXCEPT ![family] = corr]
             /\ dicts' = [dicts EXCEPT ![family] = ResultDict(corr, family, NModes(family))]
             /\ raw' = [raw EXCEPT ![family] = floats]
    /\ IF family = "S"
       THEN family' = "A" /\ pc' = "solve"
       ELSE family' = family /\ pc' = "interp"
    /\ UNCHANGED others
    /\ UNCHANGED <<args, self, result, accepted, i, j, vp_1, vp_2, fx, bis,
                   interp_vp, interp_vg, interp_k, raised, evalOut>>

\* lines 128 and 134: the two calls of interpolate
Interpolate ==
    /\ pc = "interp"
    /\ interp_vp' = [f \in Families |-> InterpDict(dicts[f], "vp")]
    /\ interp_vg' = [f \in Families |-> InterpDict(dicts[f], "vg")]
    /\ interp_k' = [f \in Families |-> InterpDict(dicts[f], "k")]
    /\ pc' = "done"
    /\ UNCHANGED others
    /\ UNCHANGED <<args, self, family, result, accepted, i, j, vp_1, vp_2, fx, bis, raw,
                   corrected, dicts, raised, evalOut>>

\* the dictionary of a family and a quantity
InterpOf(fam, which) ==
    IF which = "vp" THEN interp_vp[fam] ELSE IF which = "vg" THEN interp_vg[fam] ELSE interp_k[fam]

\* the fd values at which the returned interpolants are evaluated: the grid
\* and a point beyond fd_max
EvalPoints == {FdArr(n) : n \in 0..(self.fd_points - 1)} \cup {self.fd_max + 1}

\* a caller evaluates a returned interpolant, e.g. result[mode](fd) in
\* find_max (Utilities.py 238-240).  An evaluation changes nothing but
\* evalOut, so the first evaluation of a behaviour reaches every outcome.
Evaluate ==
    /\ pc = "done"
    /\ evalOut = NoEval
    /\ \E fam \in Families, which \in {"vp", "vg", "k"} :
         \E mode \in DOMAIN InterpOf(fam, which), x_new \in EvalPoints :
            evalOut' = [fam |-> fam, which |-> which, mode |-> mode, fd |-> x_new,
                        status |-> Interp1dCall(InterpOf(fam, which)[mode], x_new)]
    /\ UNCHANGED others
    /\ UNCHANGED <<args, self, pc, family, result, accepted, i, j, vp_1, vp_2, fx, bis, raw,
                   corrected, dicts, interp_vp, interp_vg, interp_k, raised>>

Next ==
    \/ Construct
    \/ BeginSolve
    \/ BeginSlice
    \/ Probe
    \/ BisectIter
    \/ BisectNaN
    \/ PostProcess
    \/ Interpolate
    \/ Evaluate

Spec == Init /\ [][Next]_vars

----------------------------------------------------------------------------
(* Properties *)

\* the positions at which `result` is the raw matrix of the running sweep
SweepPcs == {"slice", "probe", "bisect", "post"}

\* the mode columns of a matrix
ModeCols(m) == IF DOMAIN m = {} THEN {} ELSE DOMAIN m[0] \ {0}

NonIncreasing(seq) == \A n \in 1..(Len(seq) - 1) : seq[n + 1] <= seq[n]

\* the labels of a family with mode order at least `from`
Labels(fam, from) == {fam \o Str(n) : n \in from..(NModes(fam) - 1)}

(* C1: in the raw matrix of a sweep every non-zero cell of a mode column    *)
(* holds a bisection result whose residual passed |f(r, fd_i)| < 1e-2 and   *)
(* that is not close to the forbidden bulk speed of the family.             *)
C1_RootQuality ==
    pc \in SweepPcs =>
        \A r \in DOMAIN result : \A c \in ModeCols(result) :
            result[r][c] # 0 =>
                accepted[r][c].residual_ok /\ ~accepted[r][c].isclose

\* a finished sweep that stored a root of the cell that holds the forbidden
\* speed, and a root at the edge of that cell
C1_Witness ==
    /\ pc = "post"
    /\ \E r, q \in DOMAIN result : \E c, e \in ModeCols(result) :
          /\ result[r][c] = Forbidden(family)
          /\ Abs(result[q][e] - Forbidden(family)) = VP_UNIT

BirthOrdered(m, missing) ==
    \A c \in ModeCols(m) :
        c + 1 \in ModeCols(m) =>
            LET both == {r \in DOMAIN m : m[r][c] # missing /\ m[r][c + 1] # missing}
            IN both # {} =>
                 LET r0 == CHOOSE r \in both : \A q \in both : r <= q
                 IN m[r0][c] < m[r0][c + 1]

(* C3: at the smallest fd at which modes i and i+1 of a family both have a  *)
(* sample, vp(mode i) < vp(mode i+1), before and after Pass A.              *)
C3_BirthOrder ==
    /\ pc = "post" => BirthOrdered(result, 0)
    /\ \A f \in Families : BirthOrdered(corrected[f], NaN)

(* C4: every assigned cell of the raw matrix and every sample of every      *)
(* branch is a phase velocity strictly between 0 and vp_max.                *)
C4_PhysicalBound ==
    /\ pc \in SweepPcs =>
          \A r \in DOMAIN result : \A c \in ModeCols(result) :
              result[r][c] # 0 => 0 < result[r][c] /\ result[r][c] < args.vp_max
    /\ \A f \in Families : \A mode \in DOMAIN dicts[f] :
          \A n \in 1..Len(dicts[f][mode].vp) :
              0 < dicts[f][mode].vp[n] /\ dicts[f][mode].vp[n] < args.vp_max

\* a branch holds a root found on the last probe boundary below vp_max
C4_Witness ==
    \E f \in Families : \E mode \in DOMAIN dicts[f] :
        \E n \in 1..Len(dicts[f][mode].vp) :
            dicts[f][mode].vp[n] = args.vp_max - args.vp_step

(* C5: once the construction has returned, a mode whose branch has fewer    *)
(* than 4 samples is in none of the three maps, a mode with at least 4      *)
(* samples is in all three, and no exception was raised.                    *)
C5_ShortBranchesDropped ==
    pc = "done" =>
        /\ raised = "none"
        /\ \A f \in Families : \A mode \in DOMAIN dicts[f] :
              IF Len(dicts[f][mode].vp) < 4
              THEN /\ mode \notin DOMAIN interp_vp[f]
                   /\ mode \notin DOMAIN interp_vg[f]
                   /\ mode \notin DOMAIN interp_k[f]
              ELSE /\ mode \in DOMAIN interp_vp[f]
                   /\ mode \in DOMAIN interp_vg[f]
                   /\ mode \in DOMAIN interp_k[f]

\* a family with a branch too short to interpolate and a branch of 4 samples
C5_Witness ==
    /\ pc = "done"
    /\ \E f \in Families : \E m1, m2 \in DOMAIN dicts[f] :
          Len(dicts[f][m1].vp) < 4 /\ Len(dicts[f][m2].vp) = 4

C7_NoExtrapolation ==
    evalOut # NoEval =>
        LET f == InterpOf(evalOut.fam, evalOut.which)[evalOut.mode]
        IN IF evalOut.fd < f.x[1] \/ evalOut.fd > f.x[Len(f.x)]
           THEN evalOut.status = "ValueError"
           ELSE evalOut.status = "value"

\* an evaluation above the largest knot, at a grid point of the sweep
C7_Witness ==
    /\ evalOut # NoEval
    /\ evalOut.status = "ValueError"
    /\ evalOut.fd = self.fd_max
    /\ evalOut.which = "vg"

(* C8: whatever the residual values are, the sweep of a family runs to      *)
(* completion without raising.                                              *)
C8_SweepNeverRaises == raised = "none"

\* the conditions of InvalidConfig
ValidConfig(a) ==
    /\ a.thickness > 0
    /\ a.c_s > 0
    /\ a.c_l > a.c_s
    /\ a.vp_step > 0
    /\ a.vp_max > a.vp_step
    /\ a.fd_max \div (a.fd_step * FD_STEP_SCALE) >= 2
    /\ a.nmodes_sym >= 0
    /\ a.nmodes_antisym >= 0

(* C9: a configuration that violates a condition of InvalidConfig is        *)
(* rejected with that error before any sweep work starts.                   *)
C9_InvalidConfigRejected ==
    (~ValidConfig(args) /\ pc # "construct") => (pc = "raised" /\ raised = "InvalidConfig")

\* no sample is below the one before it
NonDecreasing(seq) == \A n \in 1..(Len(seq) - 1) : seq[n] <= seq[n + 1]

(* C10: the samples of the returned A0 branch are strictly increasing in    *)
(* fd.  Stated as what the strict claim implies: no sample of A0 is below   *)
(* the sample before it.                                                    *)
C10_A0Increasing ==
    "A0" \in DOMAIN interp_vp["A"] => NonDecreasing(interp_vp["A"]["A0"].y)

----------------------------------------------------------------------------
(* The raw matrix and the probe loop *)

\* column 0 of rows 0..n-1 is strictly increasing
StrictlyIncreasingFd(m, n) == \A r \in 0..(n - 2) : m[r][0] < m[r + 1][0]

(* C11: when a sweep ends, its raw matrix has as many rows as the fd_points *)
(* argument of the caller and N+1 columns, and column 0 runs from 0 to      *)
(* fd_max in strictly increasing steps.                                     *)
C11_RawShape ==
    pc = "post" =>
        /\ NRows(result) = args.fd_points
        /\ \A r \in DOMAIN result : DOMAIN result[r] = 0..NModes(family)
        /\ StrictlyIncreasingFd(result, NRows(result))
        /\ NRows(result) >= 2 =>
              result[0][0] = 0 /\ result[NRows(result) - 1][0] = args.fd_max

\* what the sweep does guarantee: the rows are those of self.fd_points, the
\* value __init__ derives from fd_max and fd_step
C11_RowsFromStep ==
    pc = "post" =>
        /\ NRows(result) = args.fd_max \div (args.fd_step * FD_STEP_SCALE)
        /\ \A r \in DOMAIN result : DOMAIN result[r] = 0..NModes(family)
        /\ StrictlyIncreasingFd(result, NRows(result))
        /\ NRows(result) >= 2 =>
              result[0][0] = 0 /\ result[NRows(result) - 1][0] = args.fd_max

----------------------------------------------------------------------------
(* calls of Lamb._calc_constants on a constructed object                    *)

\* the points at which the residuals are evaluated, and the values assigned
\* to the attributes d, c_L and c_S
CachePoints == {VP_STEP, 2 * VP_STEP} \X {FD_STEP_SCALE, 2 * FD_STEP_SCALE}
Attributes == {"d", "c_L", "c_S"}
AttributeValues(name) ==
    IF name = "d" THEN {1, 2}
    ELSE IF name = "c_L" THEN {2 * VP_STEP + VP_UNIT, 2 * VP_STEP + VP_UNIT + 1}
    ELSE {VP_STEP + VP_UNIT, VP_STEP + VP_UNIT + 1}

\* the probes of a slice: vp_1 and vp_2 of every pass of the while loop
\* (lines 232-262)
ProbePoints(obj) ==
    IF obj.vp_step < obj.vp_max
    THEN {n * obj.vp_step : n \in 0..((obj.vp_max - 1) \div obj.vp_step)}
    ELSE {}

\* the points the two sweeps of __init__ evaluate in every construction
SweptPoints(obj) ==
    ProbePoints(obj) \X {LinSpace(obj.fd_max, obj.fd_points, n) : n \in 0..(obj.fd_points - 1)}

\* the points a bisection evaluates first: the midpoint of a bracket, at an
\* fd and between two probes where the residuals are numbers
Midpoints(obj) ==
    {<<vp + (obj.vp_step \div 2), fd>> :
        vp \in {x \in ProbePoints(obj) : x > 0 /\ x + obj.vp_step \in ProbePoints(obj)},
        fd \in {LinSpace(obj.fd_max, obj.fd_points, n) : n \in 1..(obj.fd_points - 1)}}

CacheArgs == MkArgs(<<1, 1>>, 2, 1, VP_STEP, 1, 2 * VP_STEP + VP_UNIT, VP_STEP + VP_UNIT)

\* a constructed Lamb object: its cache holds the points swept by __init__,
\* and the midpoint of every bracket a sweep bisected
CacheInit ==
    /\ args = CacheArgs
    /\ self = SelfOf(args)
    /\ pc = "object"
    /\ SweepIdle
    /\ cancel = NotCancelled
    /\ slices = NoSlices
    /\ \E mids \in SUBSET Midpoints(self) :
          cache = Cached(<<>>, self, SweptPoints(self) \cup mids)
    /\ ret = NoRet
    /\ sh = <<>> /\ sh_mode = 0 /\ lines = <<>>
    /\ disk = [p \in Paths |-> NoFile] /\ filename = DefaultFilenames
    /\ hist = NoHist /\ mat = NoMat
    /\ im = NoIm
    /\ ui = NoUi

\* Spec ends the construction of CacheArgs in a cache CacheInit starts from
CacheInitReached ==
    (pc = "done" /\ args = CacheArgs) =>
        \E mids \in SUBSET Midpoints(self) :
            cache = Cached(<<>>, self, SweptPoints(self) \cup mids)

\* self._calc_constants(vp, fd): the cached triple if the key is known, else
\* the body is run and its result stored
CalcConstants ==
    /\ pc = "object"
    /\ \E pt \in CachePoints :
         /\ cache' = Cached(cache, self, {pt})
         /\ ret' = [vp |-> pt[1], fd |-> pt[2], value |-> cache'[CacheKey(pt[1], pt[2])],
                    obj |-> self]
    /\ UNCHANGED <<self, sweepVars, cancel, slices, shVars, matVars, im, ui>>

\* an assignment obj.d = x, obj.c_L = x or obj.c_S = x: the dataclass is
\* declared frozen=False
SetAttribute ==
    /\ pc = "object"
    /\ \E name \in Attributes : \E x \in AttributeValues(name) :
         /\ self[name] # x
         /\ self' = [self EXCEPT ![name] = x]
    /\ UNCHANGED <<sweepVars, others>>

CacheNext == CalcConstants \/ SetAttribute

CacheSpec == CacheInit /\ [][CacheNext]_vars

(* C12: every call of _calc_constants returns the triple an uncached        *)
(* evaluation with the plate parameters the object has at the call returns. *)
C12_CacheFresh ==
    ret # NoRet => ret.value = calc_constants(ret.obj, ret.vp, ret.fd)

\* a call answered from the cache
C12_Witness ==
    /\ ret # NoRet
    /\ CacheKey(ret.vp, ret.fd) \in DOMAIN cache
    /\ ret.obj # SelfOf(args)

----------------------------------------------------------------------------
(* SH (src/waves/SH.py): SH.__init__ and SH.plot_phase_velocity             *)
(*                                                                          *)
(* omega*d/ct is compared with mode*pi exactly: angles are counted in units *)
(* of pi/PI_UNITS, so a grid frequency can lie exactly on a cutoff, as a    *)
(* floating-point omega*d/ct can equal the floating-point mode*pi.          *)

MaxShModes == 5     \* largest number_of_modes given to SH
MaxOmega == 8       \* number of points of the omega grid

PI_UNITS == 2           \* np.pi, in angle units
SH_MODE_FIRST == 1      \* for mode in range(1, 5)
SH_MODE_STOP == 5

\* np.arange(0.1, 2*np.pi*5e6, 1e3): positive, evenly spaced
OmegaGrid == 1..MaxOmega

ShArgSet ==
    { [thickness |-> t, number_of_modes |-> n, c_s |-> c] :
        t \in {1, 2}, n \in 0..MaxShModes, c \in {1, 2, 3} }

ShInit ==
    /\ args \in ShArgSet
    /\ pc = "sh_construct"
    /\ self = <<>>
    /\ SweepIdle
    /\ OthersIdle

\* SH.__init__ lines 84-94
ShConstruct ==
    /\ pc = "sh_construct"
    /\ sh' = [d |-> args.thickness, number_of_modes |-> args.number_of_modes, c_S |-> args.c_s]
    /\ sh_mode' = SH_MODE_FIRST
    /\ pc' = "sh_plot"
    /\ UNCHANGED <<args, self, sweepState, cancel, slices, cacheVars, lines, matVars, im, ui>>

\* largest r with r*r <= x
ISqrt(x) == CHOOSE r \in 0..x : r * r <= x /\ (r + 1) * (r + 1) > x

\* np.square(omega*d/ct) - np.square(mode*np.pi), times ct^2
KhSquared(omega, d, ct, m) == (omega * d) * (omega * d) - (m * PI_UNITS * ct) * (m * PI_UNITS * ct)

\* np.real(np.emath.sqrt(x)): 0 for x <= 0 (the root is imaginary or zero)
RealSqrt(x) == IF x <= 0 THEN 0 ELSE ISqrt(x)

\* k[k == 0] = np.nan, vp[vp == 0] = np.nan
FilterZero(x) == IF x = 0 THEN NaN ELSE x

\* x / y of numpy: NaN for a NaN operand and for 0/0, inf for x/0
Divide(x, y) ==
    IF IsNaN(x) \/ IsNaN(y) THEN NaN
    ELSE IF y = 0 THEN (IF x = 0 THEN NaN ELSE IF x > 0 THEN PosInf ELSE NegInf)
    ELSE x \div y

\* the body of the loop for one omega: kh, k = real(kh/d), vp = omega/k.
\* k is kept times d*ct, so vp = omega*d*ct / (k*d*ct)
PhaseVelocity(omega, d, ct, m) ==
    LET k == FilterZero(RealSqrt(KhSquared(omega, d, ct, m)))
    IN FilterZero(Divide(omega * d * ct, k))

\* one pass of `for mode in range(1, 5)`: ax.plot(omega, vp, label=f'SH{mode}');
\* after the last pass the method returns
PlotPhaseVelocity ==
    /\ pc = "sh_plot"
    /\ IF sh_mode < SH_MODE_STOP
       THEN /\ lines' = lines @@ (("SH" \o Str(sh_mode)) :>
                            [w \in OmegaGrid |-> PhaseVelocity(w, sh.d, sh.c_S, sh_mode)])
            /\ sh_mode' = sh_mode + 1
            /\ pc' = pc
       ELSE /\ pc' = "sh_done"
            /\ UNCHANGED <<lines, sh_mode>>
    /\ UNCHANGED <<args, self, sweepState, cancel, slices, cacheVars, sh, matVars, im, ui>>

ShNext == ShConstruct \/ PlotPhaseVelocity

ShSpec == ShInit /\ [][ShNext]_vars

(* C13: when plot_phase_velocity returns, one branch has been produced for  *)
(* each mode order 0..number_of_modes-1 and for no other order.             *)
C13_OneBranchPerMode ==
    pc = "sh_done" =>
        DOMAIN lines = {"SH" \o Str(m) : m \in 0..(sh.number_of_modes - 1)}

\* what is produced: SH1..SH4, whatever number_of_modes is
C13_FixedModes ==
    pc = "sh_done" =>
        DOMAIN lines = {"SH" \o Str(m) : m \in SH_MODE_FIRST..(SH_MODE_STOP - 1)}

(* C14: the SHn phase velocity at a grid frequency is defined (not NaN) if  *)
(* and only if omega*d/cS >= n*pi: also at a grid point exactly on the      *)
(* cutoff.  Stated for the orders a branch is produced for.                 *)
C14_DefinedFromCutoff ==
    \A n \in SH_MODE_FIRST..(SH_MODE_STOP - 1) :
        ("SH" \o Str(n)) \in DOMAIN lines =>
            \A w \in OmegaGrid :
                ~IsNaN(lines["SH" \o Str(n)][w]) <=> (w * sh.d >= n * PI_UNITS * sh.c_S)

\* what is produced: the phase velocity of a plotted order is defined where
\* omega*d/cS > n*pi; at a grid point exactly on the cutoff it is NaN, as below
C14_DefinedAboveCutoff ==
    \A n \in SH_MODE_FIRST..(SH_MODE_STOP - 1) :
        ("SH" \o Str(n)) \in DOMAIN lines =>
            \A w \in OmegaGrid :
                ~IsNaN(lines["SH" \o Str(n)][w]) <=> (w * sh.d > n * PI_UNITS * sh.c_S)

\* a plotted mode with a grid point below its cutoff, one exactly on it and
\* one above it
C14_Witness ==
    \E n \in SH_MODE_FIRST..(SH_MODE_STOP - 1) :
        /\ ("SH" \o Str(n)) \in DOMAIN lines
        /\ \E w \in OmegaGrid : w * sh.d < n * PI_UNITS * sh.c_S
        /\ \E w \in OmegaGrid : w * sh.d = n * PI_UNITS * sh.c_S
        /\ \E w \in OmegaGrid :
              w * sh.d > n * PI_UNITS * sh.c_S /\ ~IsNaN(lines["SH" \o Str(n)][w])

----------------------------------------------------------------------------
(* Cancellation: the caller of a construction raises a cancellation signal  *)
(* while a sweep runs.  Lamb.__init__ and _solve_disp_eqn take no such      *)
(* signal and read none: no action of the construction reads `cancel`.      *)

\* the caller raises the signal during slice i of the running sweep
RaiseCancel ==
    /\ pc \in {"probe", "bisect"}
    /\ ~cancel.raised
    /\ cancel' = [raised |-> TRUE, slice |-> i]
    /\ UNCHANGED <<args, self, pc, sweepState, slices, cacheVars, shVars, matVars, im, ui>>

CancelNext == Next \/ RaiseCancel

\* the constructions in which a signal is raised: one step less deep than
\* those of Spec
CancelInit == Init /\ WorkOf(args) <= MaxWork - 1

CancelSpec == CancelInit /\ [][CancelNext]_vars

(* C15: once the cancellation signal is raised during a slice, no later     *)
(* slice of that sweep is started, no branch is returned, and the           *)
(* construction ends with a Cancelled error.                                *)
C15_CancelHonoured ==
    cancel.raised =>
        /\ pc \in {"probe", "bisect"} => i = cancel.slice
        /\ pc \notin {"interp", "done"}
        /\ pc = "raised" => raised \in {"Cancelled", "ValueError"}

\* the signal was raised before the last slice of a sweep
C15_Witness ==
    /\ cancel.raised
    /\ pc = "slice"
    /\ i = cancel.slice + 1
    /\ i < self.fd_points

----------------------------------------------------------------------------
(* IsotropicMaterial (src/materials/Materials.py)                           *)
(*                                                                          *)
(* A name and every other field of a line is a sequence of characters.  A   *)
(* line of the data file is "name density E v C11 C66"; the model keeps its *)
(* first four fields.  disk holds the content of every file, filename the   *)
(* class attribute _filename of the two classes named IsotropicMaterial.    *)

MaxRecords == 2     \* largest number of lines of the data file

\* the names of the materials of the model: "Al", "AlMg", "Mg"
MaterialNames == { <<"A", "l">>, <<"A", "l", "M", "g">>, <<"M", "g">> }

\* the lines of the file _filename of materials/Materials.py names, as
\* readlines() returns them, and whether that file ends with a newline
material_data == disk[filename[MaterialsClass]].lines
eof_newline == disk[filename[MaterialsClass]].eof_newline

\* `'.' in e`
HasDot(e) == \E k \in 1..Len(e) : e[k] = "."

\* e.replace('.', '', 1): the string without its first point
replace_first_dot(e) ==
    IF ~HasDot(e) THEN e
    ELSE LET at == CHOOSE k \in 1..Len(e) : e[k] = "." /\ \A q \in 1..(k - 1) : e[q] # "."
         IN SubSeq(e, 1, at - 1) \o SubSeq(e, at + 1, Len(e))

\* a run of n zero characters
ZeroChars(n) == [k \in 1..n |-> "0"]

\* the characters of a decimal number
DigitChars == {Str(d) : d \in 0..9}

\* the digit a character stands for
DigitOf(ch) == CHOOSE d \in 0..9 : Str(d) = ch

\* int() of a string of digits; the empty string counts as 0
RECURSIVE ParseInt(_)
ParseInt(text) ==
    IF text = <<>> THEN 0
    ELSE 10 * ParseInt(SubSeq(text, 1, Len(text) - 1)) + DigitOf(text[Len(text)])

\* the number of digits of e after its point
FractionalDigits(e) ==
    IF ~HasDot(e) THEN 0
    ELSE Len(e) - (CHOOSE k \in 1..Len(e) : e[k] = ".")

\* the strings over digits and the point that float() accepts: at least one
\* digit, at most one point; float('') raises ValueError
IsDecimal(text) ==
    /\ \A k \in 1..Len(text) : text[k] \in DigitChars \cup {"."}
    /\ \E k \in 1..Len(text) : text[k] \in DigitChars
    /\ \A k, q \in 1..Len(text) : text[k] = "." /\ text[q] = "." => k = q

\* the string without the zeros at its end
RECURSIVE StripZeros(_)
StripZeros(text) ==
    IF text # <<>> /\ text[Len(text)] = "0"
    THEN StripZeros(SubSeq(text, 1, Len(text) - 1))
    ELSE text

\* float(text) of a decimal string, kept exactly: <<m, x>> is m * 10^x with m
\* no multiple of 10, and zero is <<0, 0>>
Float(text) ==
    LET digits == replace_first_dot(text)
        kept == StripZeros(digits)
    IN IF ParseInt(kept) = 0 THEN <<0, 0>>
       ELSE <<ParseInt(kept), Len(digits) - Len(kept) - FractionalDigits(text)>>

\* the lines a file can hold; two lines of one name differ in their numbers
Records ==
    { [name |-> n, density |-> <<Str(x)>>, E |-> <<Str(x)>> \o ZeroChars(9),
       v |-> <<"0", ".", Str(x)>>] : n \in MaterialNames, x \in {1, 2} }

RECURSIVE Files(_)
Files(len) ==
    IF len = 0 THEN { <<>> }
    ELSE LET shorter == Files(len - 1)
         IN shorter \cup { Append(f, r) : f \in {g \in shorter : Len(g) = len - 1}, r \in Records }

\* the one data file of the given lines, at the default path of the class
DiskOf(file, ends_with_newline) ==
    [p \in Paths |-> IF p = MaterialsPath THEN File(file, ends_with_newline) ELSE NoFile]

MaterialInit ==
    /\ \E file \in Files(MaxRecords) : disk = DiskOf(file, FALSE)
    /\ filename = DefaultFilenames
    /\ mat \in { [NoMat EXCEPT !.material = n] : n \in MaterialNames }
    /\ args = <<>>
    /\ self = <<>>
    /\ pc = "material"
    /\ SweepIdle
    /\ cancel = NotCancelled
    /\ slices = NoSlices
    /\ cache = <<>> /\ ret = NoRet
    /\ sh = <<>> /\ sh_mode = 0 /\ lines = <<>>
    /\ hist = NoHist
    /\ im = NoIm
    /\ ui = NoUi

\* parse_materials: the list of the first fields of the lines
parse_materials(file) == [n \in 1..Len(file) |-> file[n].name]

\* `material in name` of two strings: material is a substring of name
NameMatches(material, name) ==
    \E k \in 0..(Len(name) - Len(material)) :
        SubSeq(name, k + 1, k + Len(material)) = material

\* _find_material: the index (from 1) of the first name that matches, or 0
\* where the source raises NoMaterialFound
find_material(material, material_names_list) ==
    LET found == {n \in 1..Len(material_names_list) : NameMatches(material, material_names_list[n])}
    IN IF found = {} THEN 0 ELSE CHOOSE n \in found : \A q \in found : n <= q

\* IsotropicMaterial.__init__ (lines 63-75): float() of a field that is no
\* number raises ValueError
NewMaterial ==
    /\ pc = "material"
    /\ LET index == find_material(mat.material, parse_materials(material_data))
       IN IF index = 0
          THEN mat' = [mat EXCEPT !.status = "NoMaterialFound"]
          ELSE IF \E field \in {material_data[index].density, material_data[index].E,
                                material_data[index].v} : ~IsDecimal(field)
          THEN mat' = [mat EXCEPT !.status = "ValueError"]
          ELSE mat' = [material |-> mat.material, status |-> "ok",
                       name |-> material_data[index].name,
                       density |-> Float(material_data[index].density),
                       E |-> Float(material_data[index].E),
                       v |-> Float(material_data[index].v)]
    /\ pc' = "material_done"
    /\ UNCHANGED <<args, self, sweepState, cancel, slices, cacheVars, shVars, disk, filename, hist, im, ui>>

MaterialNext == NewMaterial

MaterialSpec == MaterialInit /\ [][MaterialNext]_vars

\* the lines of the file whose name field is the name
RecordsNamed(file, name) == {n \in 1..Len(file) : file[n].name = name}

(* C16: IsotropicMaterial(material=name) loads density, E and v from the    *)
(* record of the file whose name field is name, and fails with              *)
(* NoMaterialFound if the file has no such record.                          *)
C16_LookupByName ==
    pc = "material_done" =>
        LET named == RecordsNamed(material_data, mat.material)
        IN IF named = {}
           THEN mat.status = "NoMaterialFound"
           ELSE /\ mat.status = "ok"
                /\ \E n \in named :
                      /\ mat.name = material_data[n].name
                      /\ mat.density = Float(material_data[n].density)
                      /\ mat.E = Float(material_data[n].E)
                      /\ mat.v = Float(material_data[n].v)

\* what the lookup does: the first record whose name contains the name
C16_FirstContaining ==
    pc = "material_done" =>
        LET holds == {n \in 1..Len(material_data) :
                         NameMatches(mat.material, material_data[n].name)}
        IN IF holds = {}
           THEN mat.status = "NoMaterialFound"
           ELSE /\ mat.status = "ok"
                /\ \E n \in holds :
                      /\ \A q \in holds : n <= q
                      /\ mat.name = material_data[n].name
                      /\ mat.density = Float(material_data[n].density)

\* the file holds the record asked for after one whose name contains its name
C16_Witness ==
    /\ pc = "material_done"
    /\ Len(material_data) = 2
    /\ material_data[2].name = mat.material
    /\ material_data[1].name # mat.material
    /\ NameMatches(mat.material, material_data[1].name)

----------------------------------------------------------------------------
(* ImaginaryNumber (src/materials/imaginary_numbers.py)                     *)

\* the decimal digits of n >= 0
RECURSIVE Digits(_)
Digits(n) == IF n < 10 THEN Str(n) ELSE Digits(n \div 10) \o Str(n % 10)

\* f"{n}" of an int
Format(n) == IF n < 0 THEN "-" \o Digits(-n) ELSE Digits(n)

\* the real and imaginary parts of the model: those of the repository's test
Parts == {-60, -3, 0, 4, 5, 10, 15}

ImaginaryNumber(real_part, imaginary_part) ==
    [real_part |-> real_part, imaginary_part |-> imaginary_part, rep_str |-> ""]

ImInit ==
    /\ im \in { [a |-> ImaginaryNumber(r1, i1), b |-> ImaginaryNumber(r2, i2), op |-> "", out |-> ""] :
                  r1 \in Parts, i1 \in Parts, r2 \in Parts, i2 \in Parts }
    /\ args = <<>>
    /\ self = <<>>
    /\ pc = "imaginary"
    /\ SweepIdle
    /\ cancel = NotCancelled
    /\ slices = NoSlices
    /\ cache = <<>> /\ ret = NoRet
    /\ sh = <<>> /\ sh_mode = 0 /\ lines = <<>>
    /\ disk = [p \in Paths |-> NoFile] /\ filename = DefaultFilenames
    /\ hist = NoHist /\ mat = NoMat
    /\ ui = NoUi

\* print_self with the first test <= 0
print_self_ZeroSigned(obj) ==
    IF obj.imaginary_part <= 0
    THEN Format(obj.real_part) \o Format(obj.imaginary_part) \o "i"
    ELSE Format(obj.real_part) \o "+" \o Format(obj.imaginary_part) \o "i"

\* the string print_self builds (lines 54-59)
print_self(obj) ==
    IF obj.imaginary_part < 0
    THEN Format(obj.real_part) \o Format(obj.imaginary_part) \o "i"
    ELSE IF obj.imaginary_part = 0
    THEN Format(obj.real_part)
    ELSE Format(obj.real_part) \o "+" \o Format(obj.imaginary_part) \o "i"

\* __add__ (lines 28-35)
add(obj, other) ==
    LET real_sum == obj.real_part + other.real_part
        im_sum == obj.imaginary_part + other.imaginary_part
    IN IF im_sum < 0 THEN Format(real_sum) \o Format(im_sum) \o "i"
       ELSE IF im_sum = 0 THEN Format(real_sum)
       ELSE Format(real_sum) \o "+" \o Format(im_sum) \o "i"

\* __sub__ (lines 42-49)
sub(obj, other) ==
    LET real_difference == obj.real_part - other.real_part
        im_difference == obj.imaginary_part - other.imaginary_part
    IN IF im_difference < 0 THEN Format(real_difference) \o Format(im_difference) \o "i"
       ELSE IF im_difference = 0 THEN Format(real_difference)
       ELSE Format(real_difference) \o "+" \o Format(im_difference) \o "i"

\* a.print_self(): the string is stored in rep_str and returned
PrintSelf ==
    /\ pc = "imaginary"
    /\ im' = [im EXCEPT !.a.rep_str = print_self(im.a), !.op = "print_self",
                        !.out = print_self(im.a)]
    /\ UNCHANGED <<args, self, pc, sweepState, cancel, slices, cacheVars, shVars, matVars, ui>>

\* a + b
Add ==
    /\ pc = "imaginary"
    /\ im' = [im EXCEPT !.op = "add", !.out = add(im.a, im.b)]
    /\ UNCHANGED <<args, self, pc, sweepState, cancel, slices, cacheVars, shVars, matVars, ui>>

\* a - b
Sub ==
    /\ pc = "imaginary"
    /\ im' = [im EXCEPT !.op = "sub", !.out = sub(im.a, im.b)]
    /\ UNCHANGED <<args, self, pc, sweepState, cancel, slices, cacheVars, shVars, matVars, ui>>

ImNext == PrintSelf \/ Add \/ Sub

ImSpec == ImInit /\ [][ImNext]_vars

\* the rendering of re and im: the decimal of re alone when im = 0, re, '+',
\* im and 'i' when im > 0, re, the signed im and 'i' when im < 0
Rendering(re, imag) ==
    IF imag = 0 THEN Format(re)
    ELSE IF imag > 0 THEN Format(re) \o "+" \o Digits(imag) \o "i"
    ELSE Format(re) \o "-" \o Digits(-imag) \o "i"

(* C17: print_self returns the rendering of the number's parts, a + b the  *)
(* rendering of the componentwise sum, a - b that of the componentwise      *)
(* difference.                                                              *)
C17_Rendering ==
    /\ im.op = "print_self" =>
          im.out = Rendering(im.a.real_part, im.a.imaginary_part) /\ im.a.rep_str = im.out
    /\ im.op = "add" =>
          im.out = Rendering(im.a.real_part + im.b.real_part,
                             im.a.imaginary_part + im.b.imaginary_part)
    /\ im.op = "sub" =>
          im.out = Rendering(im.a.real_part - im.b.real_part,
                             im.a.imaginary_part - im.b.imaginary_part)

\* a difference with a negative real part and a negative imaginary part of
\* two digits
C17_Witness ==
    /\ im.op = "sub"
    /\ im.a.real_part - im.b.real_part = -7
    /\ im.a.imaginary_part - im.b.imaginary_part = -11
    /\ im.out = "-7-11i"

----------------------------------------------------------------------------
(* The branch counter                                                       *)

\* the number of assigned cells of a raw row
Filled(row) == Cardinality({c \in DOMAIN row \ {0} : row[c] # 0})

\* the assigned cells of a raw row are columns 1..m, in ascending order of
\* the probe intervals that gave them
Packed(row) ==
    /\ \A c \in DOMAIN row \ {0} : row[c] # 0 <=> c <= Filled(row)
    /\ \A c \in DOMAIN row \ {0, 1} : row[c] # 0 => row[c - 1] <= row[c]

(* C18: within an fd slice the counter j is one more than the number of     *)
(* roots stored in the slice's row, so a rejected root leaves j and the row *)
(* as they were; in every raw row the assigned cells are columns 1..m with  *)
(* m <= N and no gap, in ascending order of their probe intervals.          *)
C18_NoGaps ==
    pc \in SweepPcs /\ result # <<>> =>
        /\ \A r \in DOMAIN result :
              Packed(result[r]) /\ Filled(result[r]) <= NModes(family)
        /\ pc \in {"probe", "bisect"} => j = Filled(result[i]) + 1

\* a finished sweep with a full row whose first root lies beyond the second
\* probe interval, and a row with fewer roots than columns
C18_Witness ==
    /\ pc = "post"
    /\ NModes(family) >= 2
    /\ \E r \in DOMAIN result :
          Filled(result[r]) = NModes(family) /\ result[r][1] > 2 * self.vp_step
    /\ \E r \in DOMAIN result :
          Filled(result[r]) > 0 /\ Filled(result[r]) < NModes(family)

----------------------------------------------------------------------------
(* The guard of the bisection                                               *)

\* np.isfinite
IsFinite(x) == x \notin {NaN, PosInf, NegInf}

(* C19: bisection runs on a probe interval only when the residuals at both  *)
(* endpoints are finite, neither NaN nor an infinity, and differ in sign.   *)
C19_FiniteEndpoints ==
    pc = "bisect" =>
        /\ IsFinite(bis.fa) /\ IsFinite(fx[vp_2])
        /\ Sign(bis.fa) # Sign(fx[vp_2])

\* bisection runs from an infinite residual at the left probe
C19_Witness ==
    /\ pc = "bisect"
    /\ bis.xa = vp_1
    /\ bis.fa = NegInf
    /\ IsFinite(fx[vp_2])

----------------------------------------------------------------------------
(* correct_instability on every raw matrix                                  *)

MaxRows == 4        \* rows of the raw matrices given to correct_instability
MaxRoot == 3        \* largest root of those matrices

\* the mode cells of a raw row: columns 1..m assigned, no root below the one
\* before it.  Two neighbours are equal when a residual is exactly 0 at a
\* probe: the loop stores that probe as the root of the interval it ends and
\* of the interval it starts
RawRows ==
    { row \in [1..MaxModes -> 0..MaxRoot] :
        /\ \A c \in 2..MaxModes : row[c] # 0 => row[c - 1] # 0 /\ row[c - 1] <= row[c] }

\* the raw matrix of the given mode cells: column 0 is fd_arr
RawMatrix(rows) ==
    [r \in 0..(MaxRows - 1) |->
        [c \in 0..MaxModes |-> IF c = 0 THEN r * FD_STEP_SCALE ELSE rows[r][c]]]

PassAInit ==
    /\ \E rows \in [0..(MaxRows - 1) -> RawRows] : result = RawMatrix(rows)
    /\ family \in Families
    /\ pc = "pass_a"
    /\ args = <<>>
    /\ self = <<>>
    /\ accepted = <<>>
    /\ i = 0 /\ j = 0 /\ vp_1 = 0 /\ vp_2 = 0
    /\ fx = NoMemo
    /\ bis = NoFrame
    /\ raw = [f \in Families |-> <<>>]
    /\ corrected = [f \in Families |-> <<>>]
    /\ dicts = [f \in Families |-> <<>>]
    /\ interp_vp = [f \in Families |-> <<>>]
    /\ interp_vg = [f \in Families |-> <<>>]
    /\ interp_k = [f \in Families |-> <<>>]
    /\ raised = "none"
    /\ evalOut = NoEval
    /\ OthersIdle

\* lines 267-289 on the raw matrix: result = correct_instability(result,
\* function), then the NaN sentinels and result_dict
CorrectInstability ==
    /\ pc = "pass_a"
    /\ LET corr == correct_instability(result, family, MaxModes + 1)
       IN /\ corrected' = [corrected EXCEPT ![family] = corr]
          /\ dicts' = [dicts EXCEPT ![family] = ResultDict(Sentinel(corr), family, MaxModes)]
    /\ raw' = [raw EXCEPT ![family] = result]
    /\ pc' = "pass_a_done"
    /\ UNCHANGED <<args, self, family, result, accepted, i, j, vp_1, vp_2, fx, bis,
                   interp_vp, interp_vg, interp_k, raised, evalOut, others>>

PassANext == CorrectInstability

PassASpec == PassAInit /\ [][PassANext]_vars

\* one execution of lines 152-156 on row k: the cell's value before
\* corr[j][idx+n] = 0 and the value of the next column after the copy
ShiftOf(corr, res, n, nmodes, idx, k) ==
    [row |-> k, col |-> idx + n, moved |-> corr[k][idx + n],
     placed |-> IF idx + n < nmodes
                THEN ShiftRow(corr, res, n, nmodes, idx, k)[k][idx + n + 1]
                ELSE 0]

\* the shifts of the while loop of line 146
RECURSIVE WhileShifts(_, _, _, _, _, _, _)
WhileShifts(corr, res, n, nmodes, idx, r, k) ==
    IF (corr[r][idx + n] < corr[k][idx + n] \/ corr[k][idx + n] = 0) /\ k < NRows(corr) - 1
    THEN IF corr[k][idx + n] = 0
         THEN WhileShifts(corr, res, n, nmodes, idx, r, k + 1)
         ELSE {ShiftOf(corr, res, n, nmodes, idx, k)}
              \cup WhileShifts(ShiftRow(corr, res, n, nmodes, idx, k), res, n, nmodes, idx, r, k + 1)
    ELSE {}

\* the shifts of the body of `for i in range(len(col)-1)` for row r
RowShifts(corr, res, n, nmodes, idx, r) ==
    LET len == NRows(corr)
        corr1 == IF r = len - 2 THEN SetCell(corr, r + 1, idx + n, 0) ELSE corr
    IN  IF corr1[r][idx + n] # 0
        THEN LET k == IF corr1[r + 1][idx + n] = 0
                      THEN SkipZeros(corr1, idx + n, r + 1) ELSE r + 1
             IN IF k < len - 1
                   /\ (corr1[r][idx + n] < corr1[k][idx + n] \/ corr1[k][idx + n] = 0)
                THEN WhileShifts(corr1, res, n, nmodes, idx, r, k)
                ELSE {}
        ELSE {}

RECURSIVE RowLoopShifts(_, _, _, _, _, _)
RowLoopShifts(corr, res, n, nmodes, idx, r) ==
    IF r >= NRows(corr) - 1 THEN {}
    ELSE RowShifts(corr, res, n, nmodes, idx, r)
         \cup RowLoopShifts(RowStep(corr, res, n, nmodes, idx, r), res, n, nmodes, idx, r + 1)

RECURSIVE ColLoopShifts(_, _, _, _, _)
ColLoopShifts(corr, res, n, nmodes, idx) ==
    IF idx + n > nmodes THEN {}
    ELSE RowLoopShifts(corr, res, n, nmodes, idx, 0)
         \cup ColLoopShifts(RowLoop(corr, res, n, nmodes, idx, 0), res, n, nmodes, idx + 1)

\* the shifts correct_instability(result, function) makes, in the second loop
Shifts(res, fam, width) ==
    LET n == FirstProcessed(fam)
        nmodes == NModesOf(res, width)
    IN ColLoopShifts(HeadLoop(res, n, nmodes, 0), res, n, nmodes, 0)

(* C20: in Pass A a cell of a processed column that holds a value greater   *)
(* than the last retained value above it is zeroed and that same value is   *)
(* placed in the next column of its row (when there is one), also in a row  *)
(* that the processing of an earlier column has already shifted.            *)
C20_ShiftKeepsValue ==
    pc = "pass_a_done" =>
        \A s \in Shifts(raw[family], family, MaxModes + 1) :
            /\ corrected[family][s.row][s.col] = 0
            /\ s.col < MaxModes => s.placed = s.moved

\* a row shifted by the processing of two columns in turn
C20_Witness ==
    /\ pc = "pass_a_done"
    /\ \E s, t \in Shifts(raw[family], family, MaxModes + 1) :
          s.row = t.row /\ t.col = s.col + 1 /\ t.col < MaxModes /\ t.moved # t.placed

----------------------------------------------------------------------------
(* What Pass A keeps of a raw matrix                                        *)

\* the raw columns a corrected cell can come from: its own and the one before
Sources(c) == {c, c - 1} \ {0}

\* corr is row i after Pass A, res the same row before: every non-zero cell
\* is the raw cell of its column or of the column before, and the cells taken
\* go from left to right
Relocated(corr, res) ==
    \E src \in [DOMAIN corr \ {0} -> DOMAIN corr \ {0}] :
        /\ \A c \in DOMAIN corr \ {0} :
              corr[c] # 0 => src[c] \in Sources(c) /\ corr[c] = res[src[c]]
        /\ \A c, e \in DOMAIN corr \ {0} :
              corr[c] # 0 /\ corr[e] # 0 /\ c < e => src[c] < src[e]

(* C21: Pass A relocates roots inside their fd row and never reorders them: *)
(* every non-zero cell (i, c), c >= 1, of the corrected matrix equals raw   *)
(* cell (i, c) or raw cell (i, c-1), and the non-zero values of a corrected *)
(* row stand in the left-to-right order of the raw row.                     *)
C21_RelocatedInRow ==
    pc = "pass_a_done" =>
        \A r \in DOMAIN raw[family] : Relocated(corrected[family][r], raw[family][r])

\* a corrected row with a cell kept in its column and a cell moved one
\* column to the right
C21_Witness ==
    /\ pc = "pass_a_done"
    /\ \E r \in DOMAIN raw[family] : \E c, e \in 1..MaxModes :
          /\ c < e
          /\ corrected[family][r][c] # 0 /\ corrected[family][r][c] = raw[family][r][c]
          /\ corrected[family][r][e] # 0 /\ corrected[family][r][e] = raw[family][r][e - 1]
          /\ corrected[family][r][e] # raw[family][r][e]


\* column c of a matrix, as a function of the row
Column(m, c) == [r \in DOMAIN m |-> m[r][c]]

(* C22: Pass A leaves column 0, the fd values, as it was for both families, *)
(* leaves column 1 (A0) as it was for the antisymmetric family, and leaves  *)
(* the array passed in untouched; for the symmetric family column 1 (S0) is *)
(* processed: its last row is cleared.                                      *)
C22_PassAFrame ==
    pc = "pass_a_done" =>
        /\ Column(corrected[family], 0) = Column(raw[family], 0)
        /\ family = "A" => Column(corrected[family], 1) = Column(raw[family], 1)
        /\ result = raw[family]
        /\ family = "S" => corrected[family][MaxRows - 1][1] = 0

\* the antisymmetric family with a root of A0 in the last row and a cell of a
\* later column changed by the pass
C22_Witness ==
    /\ pc = "pass_a_done"
    /\ family = "A"
    /\ raw[family][MaxRows - 1][1] # 0
    /\ \E r \in DOMAIN raw[family] : corrected[family][r][2] # raw[family][r][2]

----------------------------------------------------------------------------
(* The branches of Pass B                                                   *)

\* the rows of m with a number in column 0 and in column col
KeptRows(m, col) == {r \in DOMAIN m : ~IsNaN(m[r][0]) /\ ~IsNaN(m[r][col])}

\* the n-th kept row, in row order
NthKept(m, col, n) ==
    CHOOSE r \in KeptRows(m, col) : Cardinality({q \in KeptRows(m, col) : q < r}) = n - 1

StrictlyIncreasing(seq) == \A n \in 1..(Len(seq) - 1) : seq[n] < seq[n + 1]

\* the families whose _solve_disp_eqn call has returned its result_dict (lines
\* 115 and 120): the symmetric call once the antisymmetric one runs, both once
\* interpolate is reached; a sweep of no fd row returns empty branches
Solved ==
    {fam \in Families :
        \/ pc \in {"interp", "done"}
        \/ fam = "S" /\ family = "A" /\ pc \in {"solve", "slice", "probe", "bisect", "post", "raised"}}

(* C23: the branch of mode column m holds exactly the rows in which, after  *)
(* the zeros became NaN, column 0 and column m are both numbers, in row     *)
(* order; so its fd samples are strictly increasing and it has as many vp   *)
(* samples as fd samples.                                                   *)
C23_BranchRows ==
    \A fam \in Solved : \A nmode \in 0..(NModes(fam) - 1) :
        LET m == corrected[fam]
            col == nmode + 1
            branch == dicts[fam][fam \o Str(nmode)]
        IN /\ Len(branch.fd) = Cardinality(KeptRows(m, col))
           /\ Len(branch.vp) = Len(branch.fd)
           /\ \A n \in 1..Len(branch.fd) :
                 /\ branch.fd[n] = m[NthKept(m, col, n)][0]
                 /\ branch.vp[n] = m[NthKept(m, col, n)][col]
           /\ StrictlyIncreasing(branch.fd)

\* a branch of two samples or more with a dropped row between two kept rows
C23_Witness ==
    \E fam \in Solved : \E nmode \in 0..(NModes(fam) - 1) :
        /\ Len(dicts[fam][fam \o Str(nmode)].fd) >= 2
        /\ \E r \in DOMAIN corrected[fam] :
              /\ r \notin KeptRows(corrected[fam], nmode + 1)
              /\ \E q, t \in KeptRows(corrected[fam], nmode + 1) : q < r /\ r < t


(* C24: the zeros of the whole matrix become NaN, the fd = 0 of column 0    *)
(* with them, so the first grid row is a sample of no branch of any mode,   *)
(* whatever its cells hold, and the smallest fd of every branch is above 0. *)
C24_FirstRowDropped ==
    pc = "pass_a_done" =>
        \A nmode \in 0..(MaxModes - 1) :
            LET branch == dicts[family][family \o Str(nmode)]
            IN /\ 0 \notin KeptRows(Sentinel(corrected[family]), nmode + 1)
               /\ \A n \in 1..Len(branch.fd) : branch.fd[n] > 0
               /\ Len(branch.fd) <= MaxRows - 1

\* the row fd = 0 keeps a root after Pass A, and the branch of its column has
\* samples, none of them that root
C24_Witness ==
    /\ pc = "pass_a_done"
    /\ \E nmode \in 0..(MaxModes - 1) :
          /\ corrected[family][0][nmode + 1] # 0
          /\ Len(dicts[family][family \o Str(nmode)].fd) >= 2

----------------------------------------------------------------------------
(* The last fd row                                                          *)

\* the mode columns Pass A processes for a family
Processed(fam) == FirstProcessed(fam)..NModes(fam)

(* C25: in a sweep of two fd rows or more the last row, fd = fd_max, holds   *)
(* no root in any processed column after Pass A, whatever the sweep found   *)
(* there; the branches of those modes have no sample at fd_max and their    *)
(* interpolants end below fd_max.                                           *)
C25_LastRowCleared ==
    \A fam \in Solved :
        LET m == corrected[fam]
            last == NRows(m) - 1
        IN NRows(m) >= 2 =>
              \A c \in Processed(fam) :
                  LET key == fam \o Str(c - 1)
                  IN /\ IsNaN(m[last][c])
                     /\ \A n \in 1..Len(dicts[fam][key].fd) : dicts[fam][key].fd[n] < m[last][0]
                     /\ pc = "done" =>
                           \A which \in {"vp", "vg", "k"} :
                               key \in DOMAIN InterpOf(fam, which) =>
                                   LET f == InterpOf(fam, which)[key]
                                   IN f.x[Len(f.x)] < m[last][0]

\* the sweep found roots of A0 and of A1 at fd_max: the branch of A1 has
\* samples, none at fd_max, and A0 keeps its sample at fd_max
C25_Witness ==
    /\ pc = "done"
    /\ NModes("A") >= 2
    /\ raw["A"] # <<>>
    /\ raw["A"][NRows(raw["A"]) - 1][2] # 0
    /\ Len(dicts["A"]["A1"].fd) >= 1
    /\ dicts["A"]["A0"].fd[Len(dicts["A"]["A0"].fd)] = self.fd_max

----------------------------------------------------------------------------
(* The slices of a sweep in any order.  The body of the for loop of         *)
(* _solve_disp_eqn (lines 224-262) is run for every fd slice with locals of *)
(* its own; the slices are started in any order and their steps are         *)
(* interleaved in every way.  They share the matrix, the cache of           *)
(* _calc_constants and the residual function, whose value at a point is     *)
(* drawn the first time a slice reads it.  When all the slices have ended,  *)
(* _solve_disp_eqn runs the sweep of the same family slice after slice on   *)
(* the same residual function.                                              *)

MaxSlices == 3      \* largest number of fd rows computed in any order; a slice with
                    \* fd > 0 more needs a probe interval less

\* sweeps of the symmetric family; the bulk speeds lie above vp_max, so that
\* no root is close to one and np.isclose is False at every root
SliceArgSet ==
    { a \in { MkArgs(<<nmodes, 0>>, points, intervals, VP_STEP, 1,
                     VP_STEP * (intervals + 2) + 2 * VP_UNIT,
                     VP_STEP * (intervals + 2) + VP_UNIT) :
                nmodes \in 1..2, points \in 2..MaxSlices, intervals \in 1..MaxSlices } :
        WorkOf(a) < MaxSlices }

\* the values of the residual function at the points the slices read: NaN,
\* both signs below the threshold, zero, and a value at the threshold
SliceVals == {NaN, -1, 0, 1, RESIDUAL_TOL}

\* function(vp, fd) read by a slice
SliceRead(vp, fd) ==
    IF <<vp, fd>> \in DOMAIN slices.function THEN Residuals(vp, fd)
    ELSE Residuals(vp, fd) \cap SliceVals

SliceInit ==
    /\ args \in SliceArgSet
    /\ self = <<>>
    /\ pc = "construct"
    /\ SweepIdle
    /\ OthersIdle

\* the locals of a slice that has not started
NotStarted == [pc |-> "start", j |-> 0, vp_1 |-> 0, vp_2 |-> 0, bis |-> NoFrame]

\* a slice is inside the while loop
Running(s) == slices.frame[s].pc \in {"probe", "bisect"}

\* every slice has ended
Gathered ==
    /\ slices # NoSlices
    /\ \A s \in DOMAIN slices.frame : slices.frame[s].pc \in {"done", "raised"}

\* lines 219-220 for the slices: the matrix they fill, one frame of locals each
Dispatch ==
    /\ pc = "solve" /\ family = "S"
    /\ slices = NoSlices
    /\ slices' = [frame |-> [s \in 0..(self.fd_points - 1) |-> NotStarted],
                  result |-> Zeros(self.fd_points, NModes(family) + 1),
                  function |-> <<>>, reordered |-> FALSE, interleaved |-> FALSE]
    /\ UNCHANGED <<args, self, pc, sweepState, cancel, cacheVars, shVars, matVars, im, ui>>

\* lines 228-233 for slice s: result[i][0] = fd, j = 1, vp_1 = 0, vp_2 = vp_step.
\* History: a slice of a lower index has not started yet, another slice is
\* inside its while loop
StartSlice(s) ==
    /\ slices # NoSlices
    /\ s \in DOMAIN slices.frame
    /\ slices.frame[s].pc = "start"
    /\ slices' = [slices EXCEPT
          !.frame[s] = [pc |-> "probe", j |-> 1, vp_1 |-> 0, vp_2 |-> self.vp_step,
                        bis |-> NoFrame],
          !.result = SetCell(@, s, 0, FdArr(s)),
          !.reordered = @ \/ \E q \in DOMAIN slices.frame : q < s /\ slices.frame[q].pc = "start",
          !.interleaved = @ \/ \E q \in DOMAIN slices.frame : Running(q)]
    /\ UNCHANGED <<args, self, pc, sweepState, cancel, cacheVars, shVars, matVars, im, ui>>

\* the residual function with the value x read at (vp, fd)
Learn(fn, vp, fd, x) == IF <<vp, fd>> \in DOMAIN fn THEN fn ELSE fn @@ (<<vp, fd>> :> x)

\* lines 256-262 for slice s, fn the residual function after the reads of the pass
SliceStore(s, fn, bisection, fval, close) ==
    LET f == slices.frame[s]
        stored == Accept(fval, close)
    IN [slices EXCEPT
          !.frame[s] = [pc |-> "probe", j |-> IF stored THEN f.j + 1 ELSE f.j,
                        vp_1 |-> f.vp_2, vp_2 |-> f.vp_2 + self.vp_step, bis |-> NoFrame],
          !.result = IF stored THEN SetCell(@, s, f.j, bisection) ELSE @,
          !.function = fn]

\* lines 261-262 for slice s when no bisection was run
SliceAdvance(s, fn) ==
    [slices EXCEPT !.frame[s].vp_1 = slices.frame[s].vp_2,
                   !.frame[s].vp_2 = slices.frame[s].vp_2 + self.vp_step,
                   !.function = fn]

\* one iteration of the while loop (lines 235-262) of slice s up to the call
\* of bisect, or the end of the loop
SliceProbe(s) ==
    /\ slices # NoSlices
    /\ s \in DOMAIN slices.frame
    /\ slices.frame[s].pc = "probe"
    /\ LET f == slices.frame[s]
           nmodes == NModes(family)
           fd == FdArr(s)
       IN IF LoopGuard(f.vp_2, self.vp_max)
          THEN /\ \E x_1 \in (IF f.j < nmodes + 1 THEN SliceRead(f.vp_1, fd) ELSE {NaN}),
                     x_2 \in (IF f.j < nmodes + 1 THEN SliceRead(f.vp_2, fd) ELSE {NaN}) :
                    LET fn == IF f.j < nmodes + 1
                              THEN Learn(Learn(slices.function, f.vp_1, fd, x_1), f.vp_2, fd, x_2)
                              ELSE slices.function
                    IN slices' =
                         IF Bracket(f.j, nmodes, x_1, x_2)
                         THEN IF x_1 = 0
                              THEN SliceStore(s, fn, f.vp_1, x_1, IsClose(f.vp_1, Forbidden(family)))
                              ELSE IF x_2 = 0
                              THEN SliceStore(s, fn, f.vp_2, x_2, IsClose(f.vp_2, Forbidden(family)))
                              ELSE [slices EXCEPT
                                      !.frame[s].pc = "bisect",
                                      !.frame[s].bis = [xa |-> f.vp_1, dm |-> f.vp_2 - f.vp_1,
                                                        fa |-> x_1],
                                      !.function = fn]
                         ELSE SliceAdvance(s, fn)
               /\ cache' = Cached(cache, self, {<<f.vp_1, fd>>, <<f.vp_2, fd>>})
          ELSE /\ slices' = [slices EXCEPT !.frame[s].pc = "done"]
               /\ UNCHANGED cache
    /\ UNCHANGED <<args, self, pc, sweepState, cancel, ret, shVars, matVars, im, ui>>

\* one iteration of the loop of bisect for slice s, as BisectIter
SliceBisect(s) ==
    /\ slices # NoSlices
    /\ s \in DOMAIN slices.frame
    /\ slices.frame[s].pc = "bisect"
    /\ LET f == slices.frame[s]
           fd == FdArr(s)
           dm == f.bis.dm \div 2
           xm == f.bis.xa + dm
       IN /\ \E fm \in SliceRead(xm, fd) :
                LET fn == Learn(slices.function, xm, fd, fm)
                IN IF dm <= VP_UNIT
                   THEN \E close \in CloseValues(xm, dm, Forbidden(family)) :
                           slices' = SliceStore(s, fn, xm, fm, close)
                   ELSE IF fm = 0
                   THEN slices' = SliceStore(s, fn, xm, fm, IsClose(xm, Forbidden(family)))
                   ELSE slices' = [slices EXCEPT
                                     !.frame[s].bis =
                                        [xa |-> IF ProdGE0(fm, f.bis.fa) THEN xm ELSE f.bis.xa,
                                         dm |-> dm, fa |-> f.bis.fa],
                                     !.function = fn]
          /\ cache' = Cached(cache, self, {<<xm, fd>>})
    /\ UNCHANGED <<args, self, pc, sweepState, cancel, ret, shVars, matVars, im, ui>>

\* the ValueError of bisect for a NaN value in slice s, as BisectNaN
SliceBisectNaN(s) ==
    /\ slices # NoSlices
    /\ s \in DOMAIN slices.frame
    /\ slices.frame[s].pc = "bisect"
    /\ LET f == slices.frame[s]
           fd == FdArr(s)
           xm == f.bis.xa + (f.bis.dm \div 2)
       IN /\ NaN \in SliceRead(xm, fd)
          /\ slices' = [slices EXCEPT !.frame[s].pc = "raised", !.frame[s].bis = NoFrame,
                                      !.function = Learn(@, xm, fd, NaN)]
          /\ cache' = Cached(cache, self, {<<xm, fd>>})
    /\ UNCHANGED <<args, self, pc, sweepState, cancel, ret, shVars, matVars, im, ui>>

\* the sweep of _solve_disp_eqn, slice after slice, once the slices have ended
InLoopOrder == Gathered /\ (BeginSolve \/ BeginSlice \/ Probe \/ BisectIter \/ BisectNaN)

SliceNext ==
    \/ Construct
    \/ Dispatch
    \/ \E s \in 0..(MaxSlices - 1) : StartSlice(s)
    \/ \E s \in 0..(MaxSlices - 1) : SliceProbe(s)
    \/ \E s \in 0..(MaxSlices - 1) : SliceBisect(s)
    \/ \E s \in 0..(MaxSlices - 1) : SliceBisectNaN(s)
    \/ InLoopOrder

SliceSpec == SliceInit /\ [][SliceNext]_vars

\* every slice ran to the end of its while loop
AllEnded == Gathered /\ \A s \in DOMAIN slices.frame : slices.frame[s].pc = "done"

(* C26: row i of the raw matrix depends on fd_i and the configuration only: *)
(* the slices computed with locals of their own, started in any order and   *)
(* interleaved in any way, fill every row as the sweep of _solve_disp_eqn   *)
(* fills it slice after slice on the same residual function.                *)
C26_AnyOrderSameMatrix ==
    pc \in SweepPcs /\ AllEnded =>
        /\ \A r \in DOMAIN result : r < i => result[r] = slices.result[r]
        /\ pc = "post" => result = slices.result

\* a lower slice started after a higher one while another slice was inside
\* its loop, and the sweep in loop order has ended: two rows hold roots, and
\* not the same ones
C26_Witness ==
    /\ pc = "post"
    /\ AllEnded
    /\ slices.reordered /\ slices.interleaved
    /\ \E r, q \in DOMAIN result :
          /\ Filled(result[r]) >= 1 /\ Filled(result[q]) >= 1
          /\ result[r][1] # result[q][1]

----------------------------------------------------------------------------
(* The end of the probe loop                                                *)

(* C27: within a slice the probe loop runs exactly while vp_2 < vp_max and  *)
(* j <= N: at the head of the loop with N roots stored the loop ends, so no *)
(* probe is made and no residual is evaluated after the N-th root.          *)
C27_LoopStopsAtN ==
    [][pc = "probe" /\ result # <<>> /\ j > NModes(family) => pc' = "slice"]_vars

\* the loop went on past the interval that gave the last root of a full row
C27_Witness ==
    /\ pc = "probe"
    /\ result # <<>>
    /\ NModes(family) >= 1
    /\ j = NModes(family) + 1
    /\ vp_1 >= result[i][NModes(family)] + self.vp_step
    /\ LoopGuard(vp_2, self.vp_max)

-----------------------------------------------------------------------------
\* IsotropicMaterial.new_material (src/materials/Materials.py, lines 118-150),
\* IsotropicMaterial._new_material (src/material_editor/materials.py, lines
\* 70-82) and fix_file_path of the two classes: a line is appended to the file
\* the class attribute _filename names.

MaxCalls == 2       \* largest number of new-material calls of a behaviour
MaxDigits == 4      \* longest Young's modulus string passed to new_material

\* the characters of a Young's modulus string
EChars == {"2", "."}

\* the decimal strings float() accepts: at least one digit, at most one point
EStrings ==
    { e \in UNION { [1..len -> EChars] : len \in 1..MaxDigits } :
        /\ \E k \in 1..Len(e) : e[k] # "."
        /\ \A k, q \in 1..Len(e) : e[k] = "." /\ e[q] = "." => k = q }

\* the E arguments given to _new_material: a number, and a number after a
\* space as in test_create_new_material (E=" 25")
EditorEStrings == { <<"2">>, <<"2", ".", "2">>, <<" ", "2">> }

\* the two IsotropicMaterial objects of test_create_new_material
Instances == {"isotropic1", "marcinek"}

\* the names given to the new materials
NewNames == { <<"A", "l">>, <<"M", "g">> }

\* the other arguments of a call: density, v, c11, c66
Density == <<"1">>
Poisson == <<"0", ".", "3">>
Stiffness == <<"1">>

\* text.split(' '): the pieces between the spaces
RECURSIVE SplitSpaces(_)
SplitSpaces(text) ==
    IF \A k \in 1..Len(text) : text[k] # " " THEN <<text>>
    ELSE LET at == CHOOSE k \in 1..Len(text) : text[k] = " " /\ \A q \in 1..(k - 1) : text[q] # " "
         IN <<SubSeq(text, 1, at - 1)>> \o SplitSpaces(SubSeq(text, at + 1, Len(text)))

\* f"{name} {density} {e} {v} {c11} {c66}".split(' '): the arguments are joined
\* by one space, so the fields of the line are the pieces of each argument
RECURSIVE LineFields(_)
LineFields(arguments) ==
    IF arguments = <<>> THEN <<>>
    ELSE SplitSpaces(Head(arguments)) \o LineFields(Tail(arguments))

\* the first four fields of a line as parse_materials splits it
LineRecord(fields) ==
    [name |-> fields[1],
     density |-> IF Len(fields) >= 2 THEN fields[2] ELSE <<>>,
     E |-> IF Len(fields) >= 3 THEN fields[3] ELSE <<>>,
     v |-> IF Len(fields) >= 4 THEN fields[4] ELSE <<>>]

\* a line that holds only the newline character: split(' ') gives ["\n"]
BlankLine == LineRecord(<<<<"\n">>>>)

\* the third argument of the written line (lines 143-146)
WrittenE(e) == IF HasDot(e) THEN replace_first_dot(e) \o ZeroChars(8) ELSE e \o ZeroChars(9)

\* the number f times 10^n
TimesPow10(f, n) == IF f[1] = 0 THEN f ELSE <<f[1], f[2] + n>>

\* the content of the file after `material_data.writelines("\n")` (line 139) and
\* the write of the record (lines 143-146): the newline ends the last line if
\* that line was open, and is a line of its own if the file was empty or ended
\* with a newline; the record is left without a newline
AppendLine(file, ends_with_newline, record) ==
    IF file = <<>> \/ ends_with_newline
    THEN file \o <<BlankLine, record>>
    ELSE Append(file, record)

\* the files a path can hold before the first call: no file, or at most one
\* line with or without a newline at its end
InitialFiles ==
    {NoFile} \cup ({File(file, nl) : file \in Files(1), nl \in BOOLEAN} \ {File(<<>>, TRUE)})

\* the data files before the first call; the file of material_editor is
\* missing, empty, or holds one line
EditorInit ==
    /\ \E f1 \in InitialFiles \ {NoFile},
          f2 \in {NoFile, File(<<>>, FALSE),
                  File(<<LineRecord(LineFields(<<<<"M", "g">>, Density, <<"2">>, Poisson>>))>>, TRUE)} :
          disk = [p \in Paths |-> IF p = MaterialsPath THEN f1 ELSE f2]
    /\ filename = DefaultFilenames
    /\ hist = [before |-> [p \in Paths |-> parse_materials(disk[p].lines)], calls |-> <<>>]
    /\ mat = NoMat
    /\ args = <<>>
    /\ self = <<>>
    /\ pc = "editor"
    /\ SweepIdle
    /\ cancel = NotCancelled
    /\ slices = NoSlices
    /\ cache = <<>> /\ ret = NoRet
    /\ sh = <<>> /\ sh_mode = 0 /\ lines = <<>>
    /\ im = NoIm
    /\ ui = NoUi

\* open(cls._filename, 'a+'), the two writes and close: the file is created if
\* it is missing; `third` is the text written as the third argument of the line
WriteRecord(cls, inst, name, e, third) ==
    LET path == filename[cls]
        record == LineRecord(LineFields(<<name, Density, third, Poisson, Stiffness, Stiffness>>))
        file == AppendLine(disk[path].lines, disk[path].eof_newline, record)
    IN /\ disk' = [disk EXCEPT ![path] = File(file, FALSE)]
       /\ hist' = [hist EXCEPT !.calls =
                      Append(@, [cls |-> cls, inst |-> inst, name |-> name, e |-> e,
                                 path |-> path, at |-> Len(file)])]

\* materials/Materials.py: new_material(name, density, e, v, c11, c66), called
\* through the class or an instance
NewMaterialRecord ==
    /\ pc = "editor"
    /\ Len(hist.calls) < MaxCalls
    /\ \E inst \in Instances, name \in NewNames, e \in EStrings :
          WriteRecord(MaterialsClass, inst, name, e, WrittenE(e))
    /\ UNCHANGED <<args, self, pc, sweepState, cancel, slices, cacheVars, shVars, filename, mat, im, ui>>

\* material_editor/materials.py: _new_material(name, mass_density, E, v, C11,
\* C66) writes E as it is given (line 80)
EditorNewMaterial ==
    /\ pc = "editor"
    /\ Len(hist.calls) < MaxCalls
    /\ \E inst \in Instances, name \in NewNames, e \in EditorEStrings :
          WriteRecord(EditorClass, inst, name, e, e)
    /\ UNCHANGED <<args, self, pc, sweepState, cancel, slices, cacheVars, shVars, filename, mat, im, ui>>

\* fix_file_path(filepath) of either class (Materials.py lines 84-92,
\* material_editor/materials.py lines 54-56): cls._filename = filepath
FixFilePath ==
    /\ pc = "editor"
    /\ \E cls \in Classes, filepath \in Paths :
          /\ filename[cls] # filepath
          /\ filename' = [filename EXCEPT ![cls] = filepath]
    /\ UNCHANGED <<args, self, pc, sweepState, cancel, slices, cacheVars, shVars, disk, hist, mat, im, ui>>

EditorNext ==
    \/ NewMaterialRecord
    \/ EditorNewMaterial
    \/ FixFilePath

EditorSpec == EditorInit /\ [][EditorNext]_vars

\* the line a call wrote
LineOf(call) == disk[call.path].lines[call.at]

\* C28: new_material converts the Young's modulus from GPa to Pa: for every
\* decimal string e, with or without a point and with any number of fractional
\* digits, the number written to the file is e * 10^9.
C28_GPaToPa ==
    \A n \in 1..Len(hist.calls) :
        LET call == hist.calls[n]
        IN call.cls = MaterialsClass =>
              Float(LineOf(call).E) = TimesPow10(Float(call.e), 9)

\* the conversion is right for the strings without a point and for those with
\* exactly one fractional digit, and for no other string with a non-zero value
C28_OneFractionalDigit ==
    \A n \in 1..Len(hist.calls) :
        LET call == hist.calls[n]
        IN call.cls = MaterialsClass =>
              ((Float(LineOf(call).E) = TimesPow10(Float(call.e), 9))
                  <=> (~HasDot(call.e) \/ FractionalDigits(call.e) = 1))

\* "2.22" has been written as 222 * 10^8 Pa, ten times 2.22 GPa
C28_Witness ==
    \E n \in 1..Len(hist.calls) :
        /\ hist.calls[n].cls = MaterialsClass
        /\ hist.calls[n].e = <<"2", ".", "2", "2">>
        /\ Float(LineOf(hist.calls[n]).E) = <<222, 8>>

\* the calls that wrote to the file at a path, in call order
CallsOn(p) == SelectSeq(hist.calls, LAMBDA call : call.path = p)

\* the names of a sequence of calls
NamesOf(calls) == [n \in 1..Len(calls) |-> calls[n].name]

\* C29: each new-material call appends exactly one record and leaves the earlier
\* content unchanged; calls through different instances go to the same file in
\* call order: a parse of a file gives its previous names followed by the names
\* of the calls made on it, in call order, and no other entry.
C29_NamesInCallOrder ==
    \A p \in Paths : parse_materials(disk[p].lines) = hist.before[p] \o NamesOf(CallsOn(p))

\* the names are the previous names followed by the new ones once the blank
\* lines are left out, and there is at most one blank line, before the first
\* new record
C29_UpToBlankLine ==
    \A p \in Paths :
        LET names == parse_materials(disk[p].lines)
            kept == SelectSeq(names, LAMBDA name : name # <<"\n">>)
        IN /\ kept = hist.before[p] \o NamesOf(CallsOn(p))
           /\ \A n \in 1..Len(names) :
                names[n] = <<"\n">> => n = Len(hist.before[p]) + 1 /\ CallsOn(p) # <<>>

\* two calls through different instances on a file whose one line ends with a
\* newline: the parse has four names, the second of them "\n"
C29_Witness ==
    \E p \in Paths :
        /\ Len(hist.before[p]) = 1
        /\ Len(CallsOn(p)) = 2
        /\ CallsOn(p)[1].inst # CallsOn(p)[2].inst
        /\ Len(disk[p].lines) = 4
        /\ parse_materials(disk[p].lines)[2] = <<"\n">>

-----------------------------------------------------------------------------
\* UI.__init__ (src/UI.py, lines 73-87) and UI.app_main_loop (lines 234-417):
\* the construction of the main window and its event loop.  ui.events is the
\* list of the events read so far, each with the outcome of its handler.

MaxEvents == 3      \* largest number of events read in a behaviour

\* the events that end the loop (line 248); None is the closed window
BreakEvents == {"None", "Cancel"}

\* the help buttons (lines 255 and 260)
HelpEvents == {"-LAMB-WAVE-HELP-", "-SH-WAVE-HELP-", "-MATERIAL_HELP-"}

\* events of the input elements with enable_events=True: no branch handles them
OtherEvents == {"thickness", "material_name"}

\* the event has been read and its handler has returned: the loop goes on
Handled(u, event) ==
    [u EXCEPT !.events = Append(@, [event |-> event, raised |-> FALSE])]

\* `break` (line 250) followed by self.main_window.close() (line 414)
OnBreak(u, event) ==
    [u EXCEPT !.events = Append(@, [event |-> event, raised |-> FALSE]),
              !.pc = "done", !.closed = TRUE]

\* an exception leaves the while loop and the try block; the except clause
\* shows the popup (lines 416-417)
OnException_InsideLoop(u, event) ==
    [u EXCEPT !.events = Append(@, [event |-> event, raised |-> TRUE]),
              !.popup = TRUE]

OnException(u, event) ==
    [u EXCEPT !.events = Append(@, [event |-> event, raised |-> TRUE]),
              !.pc = "except", !.popup = TRUE]

\* a handler that may raise
MayRaise(u, event, raises) == IF raises THEN OnException(u, event) ELSE Handled(u, event)

\* DEFAULT_DATA_PATH (line 45), <SOURCE_ROOT>\materials\material_data.txt: it
\* is the class default of Materials.py only for a process started in that
\* directory
UiDataPath == "materials/material_data.txt"

\* the paths the file dialog of the window can give
UiPaths == Paths \cup {UiDataPath}

\* the files the paths hold when the program starts: none, or one line
UiFiles == {NoFile, File(<<>>, FALSE), File(<<CHOOSE r \in Records : TRUE>>, TRUE)}

\* the modules are imported and UI() has not been called: _filename is the
\* default of Materials.py line 39
UiInit ==
    /\ ui = [pc |-> "init", events |-> <<>>, popup |-> FALSE, closed |-> FALSE]
    /\ disk \in [UiPaths -> UiFiles]
    /\ filename = DefaultFilenames
    /\ hist = NoHist /\ mat = NoMat
    /\ args = <<>>
    /\ self = <<>>
    /\ pc = "ui"
    /\ SweepIdle
    /\ cancel = NotCancelled
    /\ slices = NoSlices
    /\ cache = <<>> /\ ret = NoRet
    /\ sh = <<>> /\ sh_mode = 0 /\ lines = <<>>
    /\ im = NoIm

\* UI.__init__, lines 73-87: fix_file_path(DEFAULT_DATA_PATH) makes that path
\* the data file (line 76), parse_materials reads it (line 77) and the window
\* is built (line 85).  With no file at the path open() raises
\* FileNotFoundError: nothing catches it, no window is built and app_main_loop
\* is not entered; the class keeps the path
UiConstruct ==
    /\ pc = "ui" /\ ui.pc = "init"
    /\ filename' = [filename EXCEPT ![MaterialsClass] = UiDataPath]
    /\ ui' = [ui EXCEPT !.pc = IF disk[UiDataPath].exists THEN "read" ELSE "failed"]
    /\ UNCHANGED <<args, self, pc, sweepState, cancel, slices, cacheVars, shVars, disk, hist, mat, im>>

\* self.main_window.read() (line 245) is reached
Reading == pc = "ui" /\ ui.pc = "read" /\ Len(ui.events) < MaxEvents

UiFrame == UNCHANGED <<args, self, pc, sweepState, cancel, slices, cacheVars, shVars, matVars, im>>

\* lines 248-250 and 414
UiBreak ==
    /\ Reading
    /\ \E event \in BreakEvents : ui' = OnBreak(ui, event)
    /\ UiFrame

\* lines 252-253: float(thickness) and the drawing may raise
UiGeometry ==
    /\ Reading
    /\ \E raises \in BOOLEAN : ui' = MayRaise(ui, "-GEOMETRY-", raises)
    /\ UiFrame

\* lines 255-263
UiHelp ==
    /\ Reading
    /\ \E event \in HelpEvents : ui' = Handled(ui, event)
    /\ UiFrame

\* lines 265-272: fix_file_path(values['-data_path-']) makes the chosen path
\* the data file, also when the load that follows raises; parse_materials
\* raises FileNotFoundError when there is no file at the path, and the load of
\* a file that is there may raise as well
UiLoadFile ==
    /\ Reading
    /\ \E filepath \in UiPaths, raises \in BOOLEAN :
          /\ ~disk[filepath].exists => raises
          /\ filename' = [filename EXCEPT ![MaterialsClass] = filepath]
          /\ ui' = MayRaise(ui, "-LOAD_FILE-", raises)
    /\ UNCHANGED <<args, self, pc, sweepState, cancel, slices, cacheVars, shVars, disk, hist, mat, im>>

\* lines 274-338
UiLamb ==
    /\ Reading
    /\ \E raises \in BOOLEAN : ui' = MayRaise(ui, "-LAMB-", raises)
    /\ UiFrame

\* lines 340-398
UiSh ==
    /\ Reading
    /\ \E raises \in BOOLEAN : ui' = MayRaise(ui, "-SH-", raises)
    /\ UiFrame

\* lines 400-408: new_material is called without c11 and c66, a TypeError
UiCreateMaterial ==
    /\ Reading
    /\ ui' = OnException(ui, "-CREATE_MATERIAL-")
    /\ UiFrame

\* lines 410-412
UiClosePlots ==
    /\ Reading
    /\ ui' = Handled(ui, "-CLOSE-")
    /\ UiFrame

\* an event no branch of the if statement names
UiOther ==
    /\ Reading
    /\ \E event \in OtherEvents : ui' = Handled(ui, event)
    /\ UiFrame

UiNext ==
    \/ UiConstruct
    \/ UiBreak
    \/ UiGeometry
    \/ UiHelp
    \/ UiLoadFile
    \/ UiLamb
    \/ UiSh
    \/ UiCreateMaterial
    \/ UiClosePlots
    \/ UiOther

UiSpec == UiInit /\ [][UiNext]_vars

\* the last event read, if any
LastEvent == ui.events[Len(ui.events)]

\* C30: an exception raised while an event is handled ends the event loop: the
\* error popup is shown, no later event is processed and main_window.close() is
\* not called; otherwise the loop ends only on a None or 'Cancel' event, and
\* then the window is closed.
C30_ExceptionEndsLoop ==
    /\ \A n \in 1..Len(ui.events) :
        \/ ui.events[n].raised
        \/ ui.events[n].event \in BreakEvents
        => n = Len(ui.events) /\ ui.pc # "read"
    /\ ui.pc = "read" => ~ui.popup /\ ~ui.closed
    /\ ui.pc = "except" =>
        /\ LastEvent.raised
        /\ ui.popup
        /\ ~ui.closed
    /\ ui.pc = "done" =>
        /\ LastEvent.event \in BreakEvents
        /\ ~LastEvent.raised
        /\ ui.closed
        /\ ~ui.popup
    /\ ui.popup <=> ui.pc = "except"
    /\ ui.closed <=> ui.pc = "done"

\* once the loop has ended no event is read
C30_NoLaterEvent == [][ui.pc \in {"except", "done", "failed"} => ui' = ui]_vars

\* the Lamb calculation raised after an earlier event was handled: the popup is
\* up, the window was not closed
C30_Witness ==
    /\ Len(ui.events) >= 2
    /\ LastEvent = [event |-> "-LAMB-", raised |-> TRUE]
    /\ ui.pc = "except"
    /\ ui.popup
    /\ ~ui.closed

====
